---- MODULE Spec2Model ----
(***************************************************************************)
(* Class registry and role-menu protocol of cs_discord_rs                  *)
(* (src/src/classes.rs, src/src/main.rs).                                  *)
(*                                                                         *)
(* Six specifications share one set of variables:                          *)
(*   SpecMenu  the selection-menu Submit events of one member, handled     *)
(*             concurrently (ClassMenuHandler::interaction_create);        *)
(*   SpecSeq   the registry commands (config refrole set, class create,    *)
(*             track, untrack, delete) run one after the other;            *)
(*   SpecRace  track and untrack commands of two handlers, the untrack     *)
(*             commands interleaved at their store calls;                  *)
(*   SpecInsert  track and create commands of two handlers, interleaved at *)
(*             their calls of the store and of the platform;               *)
(*   SpecDelete  delete, untrack and track commands of two handlers, the   *)
(*             delete interleaved at its calls of the store and of the     *)
(*             platform;                                                   *)
(*   SpecRender  the class list and the role menu built for registries of  *)
(*             up to MaxShown classes.                                     *)
(***************************************************************************)
EXTENDS Integers, Sequences, FiniteSets, Bags, TLC

VARIABLES
    roles,        \* live roles of the platform: role id -> [guild, name]
    channels,     \* live channels: channel id -> [guild, kind, parent, name]
    memberRoles,  \* the live role set of the acting member
    servers,      \* the "servers" collection, a bag of Server documents
    classes,      \* the "classes" collection, a bag of Class documents
    nextId,       \* the next identifier the platform hands out
    inflight,     \* Submit events whose handler is suspended at an await
    burst,        \* history: the member's first role set and the edits made
    last,         \* the last command that returned, with its result
    manual,       \* how many objects were removed from the platform by hand
    steps,        \* how many commands and manual removals have been made
    procs         \* per handler of a command, its position and local values

vars == <<roles, channels, memberRoles, servers, classes, nextId,
          inflight, burst, last, manual, steps, procs>>

(***************************************************************************)
(* Bounds of the model                                                     *)
(***************************************************************************)
MaxSubmits == 2

MaxControls == 2

MaxNameLen == 1

MaxExplicit == 1

MaxCreates == 1

MaxManual == 1

MaxClasses == 2

MaxSteps == 3

MaxHandlers == 2

(***************************************************************************)
(* Options                                                                 *)
(***************************************************************************)
None == [some |-> FALSE]

Some(v) == [some |-> TRUE, v |-> v]

(***************************************************************************)
(* Role menu: the Submit handler (main.rs, ClassMenuHandler)               *)
(***************************************************************************)
U8Max == 255

\* custom_id of a component: [prefix, n] stands for the text
\* "class_menu_button_<n>" when prefix holds, and for some other text when not
CustomId(prefix, n) == [prefix |-> prefix, n |-> n]

parse_class_button_id(id) ==
    IF ~id.prefix THEN None
    ELSE IF id.n \in 0..U8Max THEN Some(id.n) ELSE None

\* the first select menu of the message whose custom_id is the event's
FindMenu(message, custom_id) ==
    LET hits == {i \in 1..Len(message) : message[i].custom_id = custom_id}
    IN  IF hits = {} THEN None
        ELSE Some(message[CHOOSE i \in hits : \A j \in hits : i <= j])

\* the role set the handler computes for the edit call
NewRolesKeepsCurrent(member_roles, menu_roles, new_roles) ==
    member_roles \cup new_roles

NewRoles(member_roles, menu_roles, new_roles) ==
    (member_roles \ menu_roles) \cup new_roles

\* Some(role set passed to member.edit), or None when the handler returns
\* before the edit
SubmitEdit(e) ==
    IF e.kind # "SelectMenu" THEN None
    ELSE IF ~parse_class_button_id(e.custom_id).some THEN None
    ELSE IF ~e.member.some THEN None
    ELSE LET menu == FindMenu(e.message, e.custom_id)
         IN  IF ~menu.some THEN None
             ELSE Some(NewRoles(e.member.v, menu.v.options, e.values))

(***************************************************************************)
(* Names: sequences of characters                                          *)
(***************************************************************************)
Chars == {"A", "a", " "}

IsSpace(c) == c = " "

to_lowercase(s) ==
    [i \in DOMAIN s |-> CASE s[i] = "A" -> "a"
                          [] s[i] = "B" -> "b"
                          [] s[i] = "C" -> "c"
                          [] OTHER -> s[i]]

RECURSIVE TrimStart(_)
TrimStart(s) ==
    IF s # <<>> /\ IsSpace(Head(s)) THEN TrimStart(Tail(s)) ELSE s

RECURSIVE TrimEnd(_)
TrimEnd(s) ==
    IF s # <<>> /\ IsSpace(s[Len(s)])
    THEN TrimEnd(SubSeq(s, 1, Len(s) - 1))
    ELSE s

trim(s) == TrimEnd(TrimStart(s))

\* name.split_whitespace().collect::<String>().to_lowercase()
short_name_of(name) == to_lowercase(SelectSeq(name, LAMBDA c : ~IsSpace(c)))

\* the names a command can be given
NameInputs == UNION {[1..n -> Chars] : n \in 0..MaxNameLen}

Range(f) == {f[i] : i \in DOMAIN f}

\* the orders in which the elements of a set can be listed
Orders(S) ==
    {q \in [1..Cardinality(S) -> S] : \A i, j \in DOMAIN q : i # j => q[i] # q[j]}

(***************************************************************************)
(* The document store (classes.rs: mongodb collections)                    *)
(***************************************************************************)
insert_oneUnlessPresent(coll, doc) ==
    IF doc \in BagToSet(coll) THEN coll ELSE coll (+) SetToBag({doc})

insert_one(coll, doc) == coll (+) SetToBag({doc})

\* the documents a filter matches
find(coll, matched) == BagToSet(coll) \cap matched

\* delete_many: the collection without the documents the filter matches
delete_many(coll, matched) ==
    [d \in BagToSet(coll) \ matched |-> coll[d]]

deleted_count(coll, matched) ==
    BagCardinality(coll) - BagCardinality(delete_many(coll, matched))

\* find_one_and_replace of one copy of document old by new
replace_one(coll, old, new) == (coll (-) SetToBag({old})) (+) SetToBag({new})

(***************************************************************************)
(* Server (classes.rs 27-102)                                              *)
(***************************************************************************)
NewServer(id) == [server_id |-> id, admin_roles |-> <<>>, refrole |-> None]

\* the Server documents find_one can return for a guild
ServersOf(coll, id) == find(coll, {d \in BagToSet(coll) : d.server_id = id})

\* Server::get_or_create: the possible results, each with the collection it
\* leaves; a store call can fail with DatabaseError
get_or_createAlwaysInserts(coll, id) ==
    {[err |-> "ok", server |-> NewServer(id),
      servers |-> insert_one(coll, NewServer(id))]}

get_or_create(coll, id) ==
    {[err |-> "DatabaseError", server |-> NewServer(id), servers |-> coll]}
    \cup
    IF ServersOf(coll, id) # {}
    THEN {[err |-> "ok", server |-> s, servers |-> coll] : s \in ServersOf(coll, id)}
    ELSE {[err |-> "ok", server |-> NewServer(id),
           servers |-> insert_one(coll, NewServer(id))]}

(***************************************************************************)
(* Class (classes.rs 104-387)                                              *)
(***************************************************************************)
\* Class::class_exists: find_one on the exact server_id and name
class_exists(coll, server_id, name) ==
    find(coll, {d \in BagToSet(coll) :
                    d.server_id = server_id /\ d.name = name}) # {}

\* Class::find_by_role: the documents find_one can return
find_by_role(coll, role) == find(coll, {d \in BagToSet(coll) : d.role = role})

NoClass ==
    [server_id |-> "", name |-> <<>>, short_name |-> <<>>, role |-> 0,
     category |-> 0, text_channels |-> <<>>, voice_channels |-> <<>>]

\* the live guild channels (not categories) whose parent is the category
ChildrenOf(category) ==
    {c \in DOMAIN channels :
        /\ channels[c].kind # "Category"
        /\ channels[c].parent = Some(category)}

add_to_dbUnlessPresent(coll, class) ==
    IF class_exists(coll, class.server_id, class.name)
       \/ find_by_role(coll, class.role) # {}
    THEN coll
    ELSE insert_one(coll, class)

\* Class::add_to_db
add_to_db(coll, class) == insert_one(coll, class)

TrackFailNamesNoChannel(err, in_use, bad, srv, coll) ==
    [err |-> err, in_use |-> in_use, bad_channel |-> 0, servers |-> srv,
     classes |-> coll, class |-> NoClass]

TrackFail(err, in_use, bad, srv, coll) ==
    [err |-> err, in_use |-> in_use, bad_channel |-> bad, servers |-> srv,
     classes |-> coll, class |-> NoClass]

\* the name track records: the trimmed name given, else the role's name
TrackName(name, role) == IF name.some THEN trim(name.v) ELSE roles[role].name

\* track, lines 258-283: the channels are sorted by type and the record is
\* inserted; the first channel of another type met ends the call
TrackChannelsKeepsOtherTypes(srv, coll, server, name, role, category, explicit) ==
    LET all == Range(explicit) \cup ChildrenOf(category)
        text == {c \in all : channels[c].kind = "Text"}
        voice == {c \in all : channels[c].kind # "Text"}
    IN  {[err |-> "ok", in_use |-> <<>>, bad_channel |-> 0, servers |-> srv,
          classes |-> add_to_db(coll,
              [server_id |-> server.server_id, name |-> name,
               short_name |-> short_name_of(name), role |-> role,
               category |-> category, text_channels |-> t, voice_channels |-> v]),
          class |-> [server_id |-> server.server_id, name |-> name,
               short_name |-> short_name_of(name), role |-> role,
               category |-> category, text_channels |-> t, voice_channels |-> v]]
            : t \in Orders(text), v \in Orders(voice)}

TrackChannels(srv, coll, server, name, role, category, explicit) ==
    LET Valid(c) == channels[c].kind \in {"Text", "Voice"}
        bad_explicit == {i \in DOMAIN explicit : ~Valid(explicit[i])}
        children == ChildrenOf(category)
        bad_children == {c \in children : ~Valid(c)}
        all == Range(explicit) \cup children
        text == {c \in all : channels[c].kind = "Text"}
        voice == {c \in all : channels[c].kind = "Voice"}
        Rec(t, v) == [server_id |-> server.server_id, name |-> name,
                      short_name |-> short_name_of(name), role |-> role,
                      category |-> category, text_channels |-> t,
                      voice_channels |-> v]
    IN  IF bad_explicit # {}
        THEN {TrackFail("InvalidChannelType", <<>>,
                  explicit[CHOOSE i \in bad_explicit : \A j \in bad_explicit : i <= j],
                  srv, coll)}
        ELSE IF bad_children # {}
        THEN {TrackFail("InvalidChannelType", <<>>, c, srv, coll) : c \in bad_children}
        ELSE {TrackFail("DatabaseError", <<>>, 0, srv, coll)}
             \cup {[err |-> "ok", in_use |-> <<>>, bad_channel |-> 0,
                    servers |-> srv, classes |-> add_to_db(coll, Rec(t, v)),
                    class |-> Rec(t, v)]
                      : t \in Orders(text), v \in Orders(voice)}

\* track, lines 253-256: the role must not back a class already
TrackRoleCheckSkipped(srv, coll, server, name, role, category, explicit) ==
    TrackChannels(srv, coll, server, name, role, category, explicit)

TrackRoleCheck(srv, coll, server, name, role, category, explicit) ==
    {TrackFail("DatabaseError", <<>>, 0, srv, coll)}
    \cup
    IF find_by_role(coll, role) # {}
    THEN {TrackFail("RoleInUse", c.name, 0, srv, coll) : c \in find_by_role(coll, role)}
    ELSE TrackChannels(srv, coll, server, name, role, category, explicit)

\* track, lines 248-251: the name must not be recorded for the guild already
TrackNameCheck(srv, coll, server, name, role, category, explicit) ==
    {TrackFail("DatabaseError", <<>>, 0, srv, coll)}
    \cup
    IF class_exists(coll, server.server_id, name)
    THEN {TrackFail("ClassExists", <<>>, 0, srv, coll)}
    ELSE TrackRoleCheck(srv, coll, server, name, role, category, explicit)

\* Class::track: every result the call can have on the collections srv and
\* coll; guild is the guild of the command, None when the cache lacks it
track(srv, coll, guild, name, role, category, explicit) ==
    IF ~guild.some
    THEN {TrackFail("NoServer", <<>>, 0, srv, coll)}
    ELSE UNION {
            IF g.err # "ok"
            THEN {TrackFail(g.err, <<>>, 0, g.servers, coll)}
            ELSE TrackNameCheck(g.servers, coll, g.server, TrackName(name, role),
                                role, category, explicit)
            : g \in get_or_create(srv, guild.v)}

\* Class::untrack: delete_many on the role of self, then Some(self.name) when
\* the store reports a deleted document
untrackByName(coll, self) ==
    {[err |-> "DatabaseError", ret |-> None, classes |-> coll]}
    \cup
    {[err |-> "ok",
      ret |-> IF deleted_count(coll, {d \in BagToSet(coll) : d.name = self.name}) > 0
              THEN Some(self.name) ELSE None,
      classes |-> delete_many(coll, {d \in BagToSet(coll) : d.name = self.name})]}

untrack(coll, self) ==
    {[err |-> "DatabaseError", ret |-> None, classes |-> coll]}
    \cup
    {[err |-> "ok",
      ret |-> IF deleted_count(coll, {d \in BagToSet(coll) : d.role = self.role}) > 0
              THEN Some(self.name) ELSE None,
      classes |-> delete_many(coll, {d \in BagToSet(coll) : d.role = self.role})]}

\* ClassCommand::untrack (main.rs 325-340)
untrack_command(coll, role) ==
    {[err |-> "DatabaseError", ret |-> None, classes |-> coll]}
    \cup
    IF find_by_role(coll, role) = {}
    THEN {[err |-> "InvalidClass", ret |-> None, classes |-> coll]}
    ELSE UNION {{IF u.err = "ok" /\ ~u.ret.some
                 THEN [u EXCEPT !.err = "InvalidClass"]
                 ELSE u : u \in untrack(coll, c)}
                : c \in find_by_role(coll, role)}

\* the platform deletes a channel; the children of a deleted category stay,
\* without parent
RemoveChannel(chs, c) ==
    [x \in DOMAIN chs \ {c} |->
        IF chs[x].parent = Some(c) THEN [chs[x] EXCEPT !.parent = None] ELSE chs[x]]

RECURSIVE RemoveChannels(_, _)
RemoveChannels(chs, cs) ==
    IF cs = <<>> THEN chs
    ELSE RemoveChannels(IF Head(cs) \in DOMAIN chs
                        THEN RemoveChannel(chs, Head(cs)) ELSE chs, Tail(cs))

RemoveRole(rs, r) == [x \in DOMAIN rs \ {r} |-> rs[x]]

\* delete, lines 309-320: the channels of self, then its category, each
\* looked up in the guild and deleted; rejects are the objects whose deletion
\* the platform rejects
DeleteTargetsWithoutVoice(self) ==
    self.text_channels \o <<self.category>>

DeleteTargets(self) ==
    self.text_channels \o self.voice_channels \o <<self.category>>

DeleteChannelStep(guild, c, rejects) ==
    IF c \in DOMAIN channels /\ channels[c].guild = guild
    THEN IF c \in rejects THEN "rejected" ELSE "deleted"
    ELSE "missing"

\* delete, lines 322-330: the role
DeleteRoleStep(guild, r, rejects) ==
    IF r \in DOMAIN roles /\ roles[r].guild = guild
    THEN IF r \in rejects THEN "rejected" ELSE "deleted"
    ELSE "missing"

\* the attempts of the loop, in order
DeleteAttempts(guild, targets, rejects) ==
    [i \in DOMAIN targets |->
        [obj |-> targets[i], how |-> DeleteChannelStep(guild, targets[i], rejects)]]

DeleteError(a, is_role) ==
    IF a.how = "rejected" THEN [kind |-> "ApiError", obj |-> a.obj]
    ELSE IF is_role THEN [kind |-> "InvalidRole", obj |-> a.obj]
    ELSE [kind |-> "InvalidChannel", obj |-> a.obj]

DeleteFail(err, coll) ==
    [err |-> err, ret |-> None, failed |-> <<>>, attempts |-> <<>>,
     classes |-> coll, channels |-> channels, roles |-> roles, class |-> NoClass]

\* Class::delete (classes.rs 301-338)
delete(coll, self, guild, rejects) ==
    IF ~guild.some THEN {DeleteFail("NoServer", coll)}
    ELSE
    UNION {
      IF u.err # "ok" THEN {DeleteFail(u.err, coll)}
      ELSE
        LET chan == DeleteAttempts(guild.v, DeleteTargets(self), rejects)
            role == <<[obj |-> self.role,
                       how |-> DeleteRoleStep(guild.v, self.role, rejects)]>>
            gone == SelectSeq(chan, LAMBDA a : a.how = "deleted")
            bad_chan == SelectSeq(chan, LAMBDA a : a.how # "deleted")
            bad_role == SelectSeq(role, LAMBDA a : a.how # "deleted")
        IN  {[err |-> "ok",
              ret |-> IF u.ret.some THEN Some(self.name) ELSE None,
              failed |-> [i \in DOMAIN bad_chan |-> DeleteError(bad_chan[i], FALSE)]
                         \o [i \in DOMAIN bad_role |-> DeleteError(bad_role[i], TRUE)],
              attempts |-> chan \o role,
              classes |-> u.classes,
              channels |-> RemoveChannels(channels, [i \in DOMAIN gone |-> gone[i].obj]),
              roles |-> IF role[1].how = "deleted"
                        THEN RemoveRole(roles, self.role) ELSE roles,
              class |-> self]}
      : u \in untrack(coll, self)}

\* ClassCommand::delete (main.rs 348-368)
delete_command(coll, role, guild, rejects) ==
    {DeleteFail("DatabaseError", coll)}
    \cup
    IF find_by_role(coll, role) = {}
    THEN {DeleteFail("InvalidClass", coll)}
    ELSE UNION {delete(coll, c, guild, rejects) : c \in find_by_role(coll, role)}

\* Server::set_refrole (classes.rs 64-87) on the record self
set_refroleSkipsRoleCheck(coll, self, guild, role) ==
    IF ~guild.some THEN {[err |-> "NoServer", servers |-> coll]}
    ELSE {[err |-> "ok",
           servers |-> replace_one(coll, old,
               [server_id |-> self.server_id,
                admin_roles |-> self.admin_roles,
                refrole |-> Some(role)])]
            : old \in ServersOf(coll, self.server_id)}

set_refrole(coll, self, guild, role) ==
    IF ~guild.some THEN {[err |-> "NoServer", servers |-> coll]}
    ELSE IF ~(role \in DOMAIN roles /\ roles[role].guild = guild.v)
    THEN {[err |-> "InvalidRole", servers |-> coll]}
    ELSE {[err |-> "DatabaseError", servers |-> coll]}
         \cup
         IF ServersOf(coll, self.server_id) = {}
         THEN {[err |-> "NoServer", servers |-> coll]}
         ELSE {[err |-> "ok",
                servers |-> replace_one(coll, old,
                    [server_id |-> self.server_id,
                     admin_roles |-> self.admin_roles,
                     refrole |-> Some(role)])]
                 : old \in ServersOf(coll, self.server_id)}

\* the context of a command: the guild it was invoked in, if any, and
\* whether the cache holds that guild
Ctx(guild_id, cached) == [guild_id |-> guild_id, cached |-> cached]

\* ctx.guild()
guild_of(ctx) == IF ctx.guild_id.some /\ ctx.cached THEN ctx.guild_id ELSE None

\* ConfigRefroleCommand::set (main.rs 427-437)
set_command(coll, ctx, role) ==
    IF ~ctx.guild_id.some THEN {[err |-> "NoServer", servers |-> coll]}
    ELSE UNION {
            IF g.err # "ok" THEN {[err |-> g.err, servers |-> g.servers]}
            ELSE set_refrole(g.servers, g.server, guild_of(ctx), role)
            : g \in get_or_create(coll, ctx.guild_id.v)}

\* the objects create has made once k platform calls have succeeded: the
\* role, the category, then general, homework-help, resources and the voice
\* channel, with identifiers id, id + 1, ...
CreatedRoles(rs, guild, name, id, k) ==
    IF k >= 1 THEN (id :> [guild |-> guild, name |-> name]) @@ rs ELSE rs

CreatedChannelsAllText(chs, guild, name, id, k) ==
    [c \in {id + i - 1 : i \in 2..k} |->
        [guild |-> guild, kind |-> IF c = id + 1 THEN "Category" ELSE "Text",
         parent |-> IF c = id + 1 THEN None ELSE Some(id + 1), name |-> name]]
    @@ chs

CreatedChannels(chs, guild, name, id, k) ==
    LET short == short_name_of(name)
        Chan(i) ==
            CASE i = 2 -> [guild |-> guild, kind |-> "Category", parent |-> None,
                           name |-> name]
              [] i = 3 -> [guild |-> guild, kind |-> "Text", parent |-> Some(id + 1),
                           name |-> <<"general">> \o short]
              [] i = 4 -> [guild |-> guild, kind |-> "Text", parent |-> Some(id + 1),
                           name |-> <<"homework-help">> \o short]
              [] i = 5 -> [guild |-> guild, kind |-> "Text", parent |-> Some(id + 1),
                           name |-> <<"resources">> \o short]
              [] i = 6 -> [guild |-> guild, kind |-> "Voice", parent |-> Some(id + 1),
                           name |-> <<"General">> \o short]
    IN  [c \in {id + i - 1 : i \in 2..k} |-> Chan(c - id + 1)] @@ chs

CreateFailLeavesRole(err, srv, coll) ==
    [err |-> err, servers |-> srv, classes |-> coll,
     roles |-> (nextId :> [guild |-> "g1", name |-> <<>>]) @@ roles,
     channels |-> channels, nextId |-> nextId + 1, class |-> NoClass,
     attempts |-> <<>>]

CreateFail(err, srv, coll) ==
    [err |-> err, servers |-> srv, classes |-> coll, roles |-> roles,
     channels |-> channels, nextId |-> nextId, class |-> NoClass,
     attempts |-> <<>>]

\* the requests create has sent to the platform when its call number fail_at
\* is rejected (none when fail_at is 0 or 7): a future is sent when it is
\* awaited, and the first Err returns from create, so that the calls after a
\* rejected one are never sent
CreateAttempts(id, fail_at) ==
    LET n == IF fail_at \in {0, 7} THEN 6 ELSE fail_at
    IN  [i \in 1..n |->
            [obj |-> IF i = fail_at THEN 0 ELSE id + i - 1,
             how |-> IF i = fail_at THEN "rejected" ELSE "created"]]

CreateObjectsRollsBack(srv, coll, server, guild, name, fail_at) ==
    LET class == [server_id |-> server.server_id, name |-> name,
                  short_name |-> short_name_of(name), role |-> nextId,
                  category |-> nextId + 1,
                  text_channels |-> <<nextId + 2, nextId + 3, nextId + 4>>,
                  voice_channels |-> <<nextId + 5>>]
        k == IF fail_at = 0 THEN 6 ELSE 0
    IN  [err |-> IF fail_at = 0 THEN "ok"
                 ELSE IF fail_at = 7 THEN "DatabaseError" ELSE "ApiError",
         servers |-> srv,
         classes |-> IF fail_at = 0 THEN add_to_db(coll, class) ELSE coll,
         roles |-> CreatedRoles(roles, guild, name, nextId, k),
         channels |-> CreatedChannels(channels, guild, name, nextId, k),
         nextId |-> nextId + 6,
         class |-> IF fail_at = 0 THEN class ELSE NoClass,
         attempts |-> CreateAttempts(nextId, fail_at)]

\* create, lines 175-235: the platform calls, one awaited after the other,
\* and the insert; fail_at is the call that fails (1 the role .. 6 the voice
\* channel, 7 the insert), 0 when none does
CreateObjects(srv, coll, server, guild, name, fail_at) ==
    LET k == IF fail_at \in {0, 7} THEN 6 ELSE fail_at - 1
        class == [server_id |-> server.server_id, name |-> name,
                  short_name |-> short_name_of(name), role |-> nextId,
                  category |-> nextId + 1,
                  text_channels |-> <<nextId + 2, nextId + 3, nextId + 4>>,
                  voice_channels |-> <<nextId + 5>>]
    IN  [err |-> IF fail_at = 0 THEN "ok"
                 ELSE IF fail_at = 7 THEN "DatabaseError" ELSE "ApiError",
         servers |-> srv,
         classes |-> IF fail_at = 0 THEN add_to_db(coll, class) ELSE coll,
         roles |-> CreatedRoles(roles, guild, name, nextId, k),
         channels |-> CreatedChannels(channels, guild, name, nextId, k),
         nextId |-> nextId + k,
         class |-> IF fail_at = 0 THEN class ELSE NoClass,
         attempts |-> CreateAttempts(nextId, fail_at)]

\* create, lines 138-173: the checks before anything is made
CreateChecks(srv, coll, server, ctx, name) ==
    IF ~server.refrole.some THEN {CreateFail("NoRefrole", srv, coll)}
    ELSE {CreateFail("DatabaseError", srv, coll)}
         \cup
         IF class_exists(coll, server.server_id, name)
         THEN {CreateFail("ClassExists", srv, coll)}
         ELSE IF ~guild_of(ctx).some THEN {CreateFail("NoServer", srv, coll)}
         ELSE IF \E r \in DOMAIN roles :
                    /\ roles[r].guild = ctx.guild_id.v
                    /\ to_lowercase(roles[r].name) = to_lowercase(name)
         THEN {CreateFail("RoleExists", srv, coll)}
         ELSE IF \E c \in DOMAIN channels :
                    /\ channels[c].guild = ctx.guild_id.v
                    /\ channels[c].kind = "Category"
                    /\ to_lowercase(channels[c].name) = to_lowercase(name)
         THEN {CreateFail("CategoryExists", srv, coll)}
         ELSE IF ~(server.refrole.v \in DOMAIN roles
                   /\ roles[server.refrole.v].guild = ctx.guild_id.v)
         THEN {CreateFail("InvalidRefrole", srv, coll)}
         ELSE {CreateObjects(srv, coll, server, ctx.guild_id.v, name, fail_at)
                  : fail_at \in 0..7}

\* Class::create (classes.rs 133-235)
create(srv, coll, ctx, name) ==
    IF ~ctx.guild_id.some THEN {CreateFail("NoServer", srv, coll)}
    ELSE UNION {
            IF g.err # "ok" THEN {CreateFail(g.err, g.servers, coll)}
            ELSE CreateChecks(g.servers, coll, g.server, ctx, trim(name))
            : g \in get_or_create(srv, ctx.guild_id.v)}

(***************************************************************************)
(* The platform before the bot's first command                             *)
(***************************************************************************)
Guilds == {"g1", "g2"}

MemberGuild == "g1"

InitRoles ==
    (1 :> [guild |-> "g1", name |-> <<"b">>]) @@
    (2 :> [guild |-> "g1", name |-> <<"B">>]) @@
    (4 :> [guild |-> "g2", name |-> <<"A">>])

\* the guild of the member who uses the menu has a third role
MenuRoles == (3 :> [guild |-> "g1", name |-> <<"b", " ", "B">>]) @@ InitRoles

InitChannels ==
    (11 :> [guild |-> "g1", kind |-> "Category", parent |-> None, name |-> <<"A">>]) @@
    (12 :> [guild |-> "g1", kind |-> "Text", parent |-> Some(11), name |-> <<"t">>]) @@
    (13 :> [guild |-> "g1", kind |-> "Voice", parent |-> None, name |-> <<"v">>]) @@
    (14 :> [guild |-> "g1", kind |-> "Category", parent |-> None, name |-> <<"b">>]) @@
    (15 :> [guild |-> "g1", kind |-> "News", parent |-> Some(14), name |-> <<"n">>]) @@
    (16 :> [guild |-> "g2", kind |-> "Category", parent |-> None, name |-> <<"b">>])

FirstFreshId == 21

GuildRoles(g) == {r \in DOMAIN roles : roles[r].guild = g}

(***************************************************************************)
(* Role menu: the events the platform dispatches                           *)
(***************************************************************************)
\* a rendered message: one select menu per action row, custom_id
\* class_menu_button_<i> for row i (counted from 0), every class of the guild
\* in exactly one row; here as the rows' role sets.  One row of any classes,
\* or the guild's roles split over up to MaxControls rows.
Messages ==
    LET R == GuildRoles(MemberGuild)
        Shown == (SUBSET R) \ {{}}
    IN  [1..1 -> Shown] \cup
        UNION {{m \in [1..n -> Shown] :
                    /\ \A i, j \in 1..n : i # j => m[i] \cap m[j] = {}
                    /\ UNION {m[i] : i \in 1..n} = R}
               : n \in 2..MaxControls}

MessageOf(m) ==
    [i \in DOMAIN m |-> [custom_id |-> CustomId(TRUE, i - 1), options |-> m[i]]]

\* the Submit events of the member's selections; src is the row the member
\* submitted, member the member object the platform attaches to the event
SubmitEvents ==
    {[kind |-> "SelectMenu", custom_id |-> CustomId(TRUE, i - 1),
      member |-> Some(memberRoles), message |-> MessageOf(m), src |-> i,
      values |-> v]
        : <<m, i, v>> \in {<<m, i, v>> \in
              Messages \X (1..MaxControls) \X SUBSET GuildRoles(MemberGuild) :
                  i \in DOMAIN m /\ v \subseteq m[i]}}

\* the role ids of all options of the submitted control
ShownRoles(e) == e.message[e.src].options

\* interactions the Submit handler returns from without an edit
OtherEvents ==
    LET base == {e \in SubmitEvents : ShownRoles(e) = GuildRoles(MemberGuild)}
    IN  {[e EXCEPT !.kind = "Button", !.custom_id = CustomId(FALSE, 0)] : e \in base}
        \cup {[e EXCEPT !.custom_id = CustomId(FALSE, 0)] : e \in base}
        \cup {[e EXCEPT !.custom_id = CustomId(TRUE, U8Max + 1)] : e \in base}
        \cup {[e EXCEPT !.member = None] : e \in base}
        \cup {[e EXCEPT !.message = <<>>] : e \in base}

\* the interactions the member can cause next
Interactions ==
    IF Cardinality(inflight) + Len(burst.done) < MaxSubmits
    THEN SubmitEvents \cup OtherEvents
    ELSE {}

\* the platform dispatches an interaction; the handler runs up to its first
\* await (defer) unless it returns at once
Dispatch(e) ==
    /\ inflight' = IF SubmitEdit(e).some THEN inflight \cup {e} ELSE inflight
    /\ UNCHANGED <<roles, channels, memberRoles, servers, classes, nextId,
                   burst, last, manual, steps, procs>>

EditCompletesRetries(e, accepted) ==
    /\ e \in inflight
    /\ inflight' = IF accepted THEN inflight \ {e} ELSE inflight
    /\ memberRoles' = IF accepted THEN SubmitEdit(e).v ELSE memberRoles
    /\ burst' = [burst EXCEPT !.done = Append(@,
                    [event |-> e, applied |-> SubmitEdit(e).v,
                     accepted |-> accepted])]
    /\ UNCHANGED <<roles, channels, servers, classes, nextId, last, manual,
                   steps, procs>>

\* the handler's member.edit call reaches the platform, which applies the
\* role set or rejects the call; the handler returns either way
EditCompletes(e, accepted) ==
    /\ e \in inflight
    /\ inflight' = inflight \ {e}
    /\ memberRoles' = IF accepted THEN SubmitEdit(e).v ELSE memberRoles
    /\ burst' = [burst EXCEPT !.done = Append(@,
                    [event |-> e, applied |-> SubmitEdit(e).v,
                     accepted |-> accepted])]
    /\ UNCHANGED <<roles, channels, servers, classes, nextId, last, manual,
                   steps, procs>>

NoLast ==
    [op |-> "", role |-> 0, name |-> <<>>, combined |-> {},
     err |-> "", in_use |-> <<>>, bad_channel |-> 0, ret |-> None,
     class |-> NoClass, failed |-> <<>>, attempts |-> <<>>,
     listed |-> <<>>]

InitStore ==
    /\ channels = InitChannels
    /\ nextId = FirstFreshId
    /\ servers = EmptyBag
    /\ classes = EmptyBag
    /\ last = NoLast
    /\ manual = 0
    /\ steps = 0

InitMenu ==
    /\ InitStore
    /\ procs = << >>
    /\ roles = MenuRoles
    /\ memberRoles \in SUBSET {r \in DOMAIN MenuRoles : MenuRoles[r].guild = MemberGuild}
    /\ inflight = {}
    /\ burst = [base |-> memberRoles, done |-> <<>>]

NextMenu ==
    \/ \E e \in Interactions : Dispatch(e)
    \/ \E e \in inflight, accepted \in BOOLEAN : EditCompletes(e, accepted)

SpecMenu == InitMenu /\ [][NextMenu]_vars

(***************************************************************************)
(* Claims about the role menu                                              *)
(***************************************************************************)
\* C1: in every Submit, the role set passed to the single edit call is
\* (current \ shown) \cup selected, with current the role set of the event's
\* member, shown the option values of the submitted control and selected the
\* submitted values; an accepted edit makes it the member's role set.
C1_DeltaLaw ==
    /\ \A i \in 1..Len(burst.done) :
          LET d == burst.done[i]
          IN  d.applied = (d.event.member.v \ ShownRoles(d.event)) \cup d.event.values
    /\ (inflight = {} /\ burst.done # <<>> /\ burst.done[Len(burst.done)].accepted)
          => memberRoles = burst.done[Len(burst.done)].applied

\* the spec's example: current {A,B,C}, shown {A,B}, selected {B} gives {B,C}
C1_Witness ==
    \E i \in 1..Len(burst.done) :
        LET d == burst.done[i]
        IN  /\ d.accepted
            /\ d.event.member.v = {1, 2, 3}
            /\ ShownRoles(d.event) = {1, 2}
            /\ d.event.values = {2}
            /\ d.applied = {2, 3}
            /\ Len(d.event.message) = 2
            /\ i = Len(burst.done) /\ memberRoles = {2, 3}

\* the member's live role set right before the i-th edit of the burst
RolesBefore(i) ==
    LET acc == {j \in 1..(i - 1) : burst.done[j].accepted}
    IN  IF acc = {} THEN burst.base
        ELSE burst.done[CHOOSE j \in acc : \A k \in acc : k <= j].applied

\* C2: an accepted Submit leaves the member's membership of every role that
\* is not an option of the submitted control as it was before the edit.
C2_FrameOtherRoles ==
    \A i \in 1..Len(burst.done) :
        LET d == burst.done[i]
        IN  d.accepted =>
                \A r \in DOMAIN roles \ ShownRoles(d.event) :
                    (r \in d.applied) <=> (r \in RolesBefore(i))

\* C3: two submissions of controls with disjoint shown roles, handled
\* concurrently and both accepted, leave the member with the role set that
\* applying one after the other gives.
C3_ConcurrentIndependent ==
    (/\ inflight = {}
     /\ Len(burst.done) = 2
     /\ burst.done[1].accepted /\ burst.done[2].accepted
     /\ ShownRoles(burst.done[1].event) \cap ShownRoles(burst.done[2].event) = {})
    => LET e1 == burst.done[1].event
           e2 == burst.done[2].event
           one == (burst.base \ ShownRoles(e1)) \cup e1.values
       IN  memberRoles = (one \ ShownRoles(e2)) \cup e2.values

(***************************************************************************)
(* The registry commands, one at a time                                    *)
(***************************************************************************)
\* what is kept of a command: a command that stops on a failure of the store
\* or of the cache answers with that failure and nothing else
Report(rec) ==
    IF rec.err \in {"DatabaseError", "NoServer"}
    THEN [NoLast EXCEPT !.op = rec.op, !.err = rec.err,
                        !.attempts = rec.attempts]
    ELSE rec

GuildCategories(g) ==
    {c \in DOMAIN channels : channels[c].guild = g /\ channels[c].kind = "Category"}

\* the channel options of track take text and voice channels only
\* (main.rs 283-297, channel_types)
GuildChannels(g) ==
    {c \in DOMAIN channels :
        channels[c].guild = g /\ channels[c].kind \in {"Text", "Voice"}}

\* commands are invoked in a guild; the cache may lack the guild
GuildCtxs == {Ctx(Some(g), c) : g \in Guilds, c \in BOOLEAN}

ExplicitInputs(g) == UNION {[1..n -> GuildChannels(g)] : n \in 0..MaxExplicit}

ConfigRefroleSet(ctx, role) ==
    /\ steps < MaxSteps
    /\ steps' = steps + 1
    /\ \E o \in set_command(servers, ctx, role) :
          /\ servers' = o.servers
          /\ last' = Report([NoLast EXCEPT !.op = "set",
                                    !.role = role, !.err = o.err])
    /\ UNCHANGED <<roles, channels, memberRoles, classes, nextId, inflight,
                   burst, manual, procs>>

ClassCreate(ctx, name) ==
    /\ steps < MaxSteps
    /\ steps' = steps + 1
    /\ nextId + 6 <= FirstFreshId + 6 * MaxCreates
    /\ BagCardinality(classes) < MaxClasses
    /\ \E o \in create(servers, classes, ctx, name) :
          /\ servers' = o.servers
          /\ classes' = o.classes
          /\ roles' = o.roles
          /\ channels' = o.channels
          /\ nextId' = o.nextId
          /\ last' = Report([NoLast EXCEPT !.op = "create",
                                    !.err = o.err, !.class = o.class,
                                    !.attempts = o.attempts])
    /\ UNCHANGED <<memberRoles, inflight, burst, manual, procs>>

ClassTrack(ctx, name, role, category, explicit) ==
    /\ steps < MaxSteps
    /\ steps' = steps + 1
    /\ BagCardinality(classes) < MaxClasses
    /\ \E o \in track(servers, classes, guild_of(ctx), name, role, category, explicit) :
          /\ servers' = o.servers
          /\ classes' = o.classes
          /\ last' = Report([NoLast EXCEPT !.op = "track",
                                    !.role = role,
                                    !.name = TrackName(name, role),
                                    !.combined = Range(explicit) \cup
                                                 ChildrenOf(category),
                                    !.err = o.err,
                                    !.in_use = o.in_use,
                                    !.bad_channel = o.bad_channel,
                                    !.class = o.class])
    /\ UNCHANGED <<roles, channels, memberRoles, nextId, inflight, burst,
                   manual, procs>>

ClassUntrackRemovesRole(ctx, role) ==
    /\ steps < MaxSteps
    /\ steps' = steps + 1
    /\ \E o \in untrack_command(classes, role) :
          /\ classes' = o.classes
          /\ roles' = IF o.ret.some THEN RemoveRole(roles, role) ELSE roles
          /\ last' = Report([NoLast EXCEPT !.op = "untrack",
                                    !.role = role, !.err = o.err, !.ret = o.ret])
    /\ UNCHANGED <<channels, memberRoles, servers, nextId, inflight,
                   burst, manual, procs>>

ClassUntrack(ctx, role) ==
    /\ steps < MaxSteps
    /\ steps' = steps + 1
    /\ \E o \in untrack_command(classes, role) :
          /\ classes' = o.classes
          /\ last' = Report([NoLast EXCEPT !.op = "untrack",
                                    !.role = role, !.err = o.err, !.ret = o.ret])
    /\ UNCHANGED <<roles, channels, memberRoles, servers, nextId, inflight,
                   burst, manual, procs>>

\* the objects of the classes a role backs
ObjectsOf(role) ==
    UNION {Range(DeleteTargets(c)) \cup {c.role} : c \in find_by_role(classes, role)}

ClassDelete(ctx, role, rejects) ==
    /\ steps < MaxSteps
    /\ steps' = steps + 1
    /\ \E o \in delete_command(classes, role, guild_of(ctx), rejects) :
          /\ classes' = o.classes
          /\ channels' = o.channels
          /\ roles' = o.roles
          /\ memberRoles' = memberRoles \cap DOMAIN o.roles
          /\ last' = Report([NoLast EXCEPT !.op = "delete",
                                    !.role = role, !.err = o.err, !.ret = o.ret,
                                    !.class = o.class, !.failed = o.failed,
                                    !.attempts = o.attempts])
    /\ UNCHANGED <<servers, nextId, inflight, burst, manual, procs>>

\* someone removes a channel or a role on the platform, outside the bot
ManualRemove(x) ==
    /\ manual < MaxManual
    /\ steps < MaxSteps
    /\ steps' = steps + 1
    /\ manual' = manual + 1
    /\ IF x \in DOMAIN channels
       THEN channels' = RemoveChannel(channels, x) /\ UNCHANGED <<roles, memberRoles>>
       ELSE /\ roles' = RemoveRole(roles, x)
            /\ memberRoles' = memberRoles \ {x}
            /\ UNCHANGED channels
    /\ last' = [NoLast EXCEPT !.op = "manual"]
    /\ UNCHANGED <<servers, classes, nextId, inflight, burst, procs>>

Init ==
    /\ InitStore
    /\ procs = << >>
    /\ roles = InitRoles
    /\ memberRoles = {}
    /\ inflight = {}
    /\ burst = [base |-> {}, done |-> <<>>]

NextSeq ==
    \/ \E ctx \in GuildCtxs \cup {Ctx(None, FALSE)}, role \in DOMAIN roles :
          ConfigRefroleSet(ctx, role)
    \/ \E ctx \in GuildCtxs \cup {Ctx(None, FALSE)}, name \in NameInputs :
          ClassCreate(ctx, name)
    \/ \E ctx \in GuildCtxs :
       \E name \in {None} \cup {Some(n) : n \in NameInputs},
          role \in GuildRoles(ctx.guild_id.v),
          category \in GuildCategories(ctx.guild_id.v),
          explicit \in ExplicitInputs(ctx.guild_id.v) :
          ClassTrack(ctx, name, role, category, explicit)
    \/ \E ctx \in GuildCtxs : \E role \in GuildRoles(ctx.guild_id.v) :
          ClassUntrack(ctx, role)
    \/ \E ctx \in GuildCtxs : \E role \in GuildRoles(ctx.guild_id.v) :
       \E rejects \in SUBSET ObjectsOf(role) :
          ClassDelete(ctx, role, rejects)
    \/ \E x \in DOMAIN channels \cup DOMAIN roles : ManualRemove(x)

SpecSeq == Init /\ [][NextSeq]_vars

(***************************************************************************)
(* The untrack command of concurrent handlers: each handler is suspended   *)
(* between its find_by_role call and its untrack call                      *)
(***************************************************************************)
Handlers == 1..MaxHandlers

Idle == [pc |-> "idle", class |-> NoClass]

\* ClassCommand::untrack up to the answer of find_by_role (main.rs 325-333)
UntrackFind(p, role) ==
    /\ procs[p].pc = "idle"
    /\ steps < MaxSteps
    /\ steps' = steps + 1
    /\ \/ /\ last' = Report([NoLast EXCEPT !.op = "untrack", !.role = role,
                                           !.err = "DatabaseError"])
          /\ UNCHANGED procs
       \/ /\ find_by_role(classes, role) = {}
          /\ last' = [NoLast EXCEPT !.op = "untrack", !.role = role,
                                    !.err = "InvalidClass"]
          /\ UNCHANGED procs
       \/ \E c \in find_by_role(classes, role) :
             /\ procs' = [procs EXCEPT ![p] = [pc |-> "found", class |-> c]]
             /\ UNCHANGED last
    /\ UNCHANGED <<roles, channels, memberRoles, servers, classes, nextId,
                   inflight, burst, manual>>

\* ClassCommand::untrack from the call of Class::untrack on the class found
\* (main.rs 333-340)
UntrackCall(p) ==
    /\ procs[p].pc = "found"
    /\ \E u \in untrack(classes, procs[p].class) :
          /\ classes' = u.classes
          /\ last' = Report([NoLast EXCEPT
                                !.op = "untrack",
                                !.role = procs[p].class.role,
                                !.class = procs[p].class,
                                !.err = IF u.err = "ok" /\ ~u.ret.some
                                        THEN "InvalidClass" ELSE u.err,
                                !.ret = u.ret])
    /\ procs' = [procs EXCEPT ![p] = Idle]
    /\ UNCHANGED <<roles, channels, memberRoles, servers, nextId, inflight,
                   burst, manual, steps>>

InitRace ==
    /\ InitStore
    /\ roles = InitRoles
    /\ memberRoles = {}
    /\ inflight = {}
    /\ burst = [base |-> {}, done |-> <<>>]
    /\ procs = [p \in Handlers |-> Idle]

NextRace ==
    \/ \E ctx \in GuildCtxs :
       \E name \in {None} \cup {Some(n) : n \in NameInputs},
          role \in GuildRoles(ctx.guild_id.v),
          category \in GuildCategories(ctx.guild_id.v),
          explicit \in ExplicitInputs(ctx.guild_id.v) :
          ClassTrack(ctx, name, role, category, explicit)
    \/ \E p \in Handlers, role \in DOMAIN roles : UntrackFind(p, role)
    \/ \E p \in Handlers : UntrackCall(p)

SpecRace == InitRace /\ [][NextRace]_vars

(***************************************************************************)
(* The track and create commands of concurrent handlers: each handler is   *)
(* suspended at the calls of the store and of the platform, where the      *)
(* other handler can run                                                   *)
(***************************************************************************)
NoCmd ==
    [op |-> "", ctx |-> Ctx(None, FALSE), name |-> None, role |-> 0,
     category |-> 0, explicit |-> <<>>]

\* a handler that runs no command
Waiting ==
    [pc |-> "idle", cmd |-> NoCmd, server |-> NewServer(""), class |-> NoClass]

\* the contexts and names of the commands of concurrent handlers
RaceCtxs == {Ctx(Some(g), TRUE) : g \in Guilds} \cup {Ctx(Some(MemberGuild), FALSE)}

RaceNames == {<<" ">>, <<"A">>}

\* the first category of a guild
FirstCategory(g) ==
    CHOOSE c \in GuildCategories(g) : \A d \in GuildCategories(g) : c <= d

\* the track commands a handler can be given
TrackCmds ==
    UNION {{[op |-> "track", ctx |-> ctx, name |-> name, role |-> role,
             category |-> FirstCategory(ctx.guild_id.v), explicit |-> <<>>]
               : name \in {None} \cup {Some(n) : n \in RaceNames},
                 role \in GuildRoles(ctx.guild_id.v)}
           : ctx \in RaceCtxs}

\* the create commands a handler can be given
CreateCmds ==
    {[NoCmd EXCEPT !.op = "create", !.ctx = ctx, !.name = Some(n)]
        : ctx \in RaceCtxs, n \in RaceNames}

\* what a handler answers when its command ends
Answer(p, err, class) ==
    /\ procs' = [procs EXCEPT ![p] = Waiting]
    /\ last' = Report([NoLast EXCEPT
                          !.op = procs[p].cmd.op, !.err = err, !.class = class])

\* the command up to the answer of find_one in Server::get_or_create
\* (classes.rs 36-50; main.rs track 277-300, create 234-246)
GetOrCreateFind(p, cmd) ==
    /\ procs[p].pc = "idle"
    /\ steps < MaxSteps
    /\ steps' = steps + 1
    /\ LET started == [Waiting EXCEPT !.cmd = cmd]
           id == cmd.ctx.guild_id.v
       IN  IF cmd.op = "track" /\ ~guild_of(cmd.ctx).some
           THEN /\ procs' = procs
                /\ last' = Report([NoLast EXCEPT !.op = cmd.op, !.err = "NoServer"])
           ELSE \/ /\ procs' = procs
                   /\ last' = Report([NoLast EXCEPT !.op = cmd.op,
                                                    !.err = "DatabaseError"])
                \/ /\ ServersOf(servers, id) = {}
                   /\ procs' = [procs EXCEPT ![p] =
                                   [started EXCEPT !.pc = "insert_server",
                                                   !.server = NewServer(id)]]
                   /\ UNCHANGED last
                \/ \E s \in ServersOf(servers, id) :
                      /\ procs' = [procs EXCEPT ![p] =
                                      [started EXCEPT !.pc = "checks",
                                                      !.server = s]]
                      /\ UNCHANGED last
    /\ UNCHANGED <<roles, channels, memberRoles, servers, classes, nextId,
                   inflight, burst, manual>>

\* insert_one of Server::get_or_create (classes.rs 52-61)
GetOrCreateInsertUpserts(p) ==
    /\ procs[p].pc = "insert_server"
    /\ \/ /\ Answer(p, "DatabaseError", NoClass)
          /\ UNCHANGED servers
       \/ /\ servers' = insert_one(
                            [d \in BagToSet(servers) \ ServersOf(servers, procs[p].server.server_id)
                                |-> servers[d]],
                            procs[p].server)
          /\ procs' = [procs EXCEPT ![p].pc = "checks"]
          /\ UNCHANGED last
    /\ UNCHANGED <<roles, channels, memberRoles, classes, nextId, inflight,
                   burst, manual, steps>>

GetOrCreateInsert(p) ==
    /\ procs[p].pc = "insert_server"
    /\ \/ /\ Answer(p, "DatabaseError", NoClass)
          /\ UNCHANGED servers
       \/ /\ servers' = insert_one(servers, procs[p].server)
          /\ procs' = [procs EXCEPT ![p].pc = "checks"]
          /\ UNCHANGED last
    /\ UNCHANGED <<roles, channels, memberRoles, classes, nextId, inflight,
                   burst, manual, steps>>

\* the lookups and checks of track (classes.rs 246-273) and of create
\* (classes.rs 138-173) on what the store and the cache hold now; a command
\* that passes them goes on to insert (track) or to make its objects (create)
Checks(p) ==
    /\ procs[p].pc = "checks"
    /\ LET cmd == procs[p].cmd
           outcomes ==
               IF cmd.op = "track"
               THEN TrackNameCheck(servers, classes, procs[p].server,
                                   TrackName(cmd.name, cmd.role), cmd.role,
                                   cmd.category, cmd.explicit)
               ELSE CreateChecks(servers, classes, procs[p].server, cmd.ctx,
                                 trim(cmd.name.v))
       IN  \E o \in outcomes :
              IF cmd.op = "track" /\ o.err = "ok"
              THEN /\ procs' = [procs EXCEPT ![p].pc = "insert",
                                             ![p].class = o.class]
                   /\ UNCHANGED last
              ELSE IF cmd.op = "create" /\ o.attempts # <<>>
              THEN /\ procs' = [procs EXCEPT ![p].pc = "make"]
                   /\ UNCHANGED last
              ELSE Answer(p, o.err, NoClass)
    /\ UNCHANGED <<roles, channels, memberRoles, servers, classes, nextId,
                   inflight, burst, manual, steps>>

\* the role, the category and the channels of create (classes.rs 175-232):
\* the platform rejects call fail_at, or none
Make(p, fail_at) ==
    /\ procs[p].pc = "make"
    /\ LET cmd == procs[p].cmd
           o == CreateObjects(servers, classes, procs[p].server,
                              cmd.ctx.guild_id.v, trim(cmd.name.v), fail_at)
       IN  /\ roles' = o.roles
           /\ channels' = o.channels
           /\ nextId' = o.nextId
           /\ IF fail_at = 0
              THEN /\ procs' = [procs EXCEPT ![p].pc = "insert",
                                             ![p].class = o.class]
                   /\ UNCHANGED last
              ELSE Answer(p, o.err, NoClass)
    /\ UNCHANGED <<memberRoles, servers, classes, inflight, burst, manual, steps>>

\* Class::add_to_db at the end of track and of create (classes.rs 274-283,
\* 233-234, 370-373)
AddToDb(p) ==
    /\ procs[p].pc = "insert"
    /\ \/ /\ Answer(p, "DatabaseError", NoClass)
          /\ UNCHANGED classes
       \/ /\ classes' = add_to_db(classes, procs[p].class)
          /\ Answer(p, "ok", procs[p].class)
    /\ UNCHANGED <<roles, channels, memberRoles, servers, nextId, inflight,
                   burst, manual, steps>>

InitInsert ==
    /\ InitStore
    /\ roles = InitRoles
    /\ memberRoles = {}
    /\ inflight = {}
    /\ burst = [base |-> {}, done |-> <<>>]
    /\ procs = [p \in Handlers |-> Waiting]

NextInsert ==
    \/ \E p \in Handlers, cmd \in TrackCmds \cup CreateCmds : GetOrCreateFind(p, cmd)
    \/ \E p \in Handlers : GetOrCreateInsert(p)
    \/ \E p \in Handlers : Checks(p)
    \/ \E p \in Handlers, fail_at \in 0..6 : Make(p, fail_at)
    \/ \E p \in Handlers : AddToDb(p)
    \/ \E ctx \in RaceCtxs :
       \E role \in GuildRoles(ctx.guild_id.v) : ConfigRefroleSet(ctx, role)

SpecInsert == InitInsert /\ [][NextInsert]_vars

(***************************************************************************)
(* The delete command of concurrent handlers, with untrack and track: a    *)
(* handler that deletes is suspended at the call of the store and at each  *)
(* call of the platform                                                    *)
(***************************************************************************)
\* the object is on the platform
Live(x) == x \in DOMAIN channels \cup DOMAIN roles

\* the objects of a guild that ctx.guild() holds when it is called
CachedGuild(g) ==
    {c \in DOMAIN channels : channels[c].guild = g}
    \cup {r \in DOMAIN roles : roles[r].guild = g}

\* the objects delete goes through, in the order of its calls
DeleteOrderRoleFirst(self) == <<self.role>> \o DeleteTargets(self)

DeleteOrder(self) == DeleteTargets(self) \o <<self.role>>

\* one pass of delete on object x: an object the guild value lacks is not
\* asked for; the platform rejects a request for an object that is gone, and
\* may reject any other
DeleteRequest(seen, x, accepted) ==
    IF x \notin seen THEN "missing"
    ELSE IF accepted /\ Live(x) THEN "deleted"
    ELSE "rejected"

\* ClassCommand::delete up to the answer of find_by_role, and the guild
\* value Class::delete takes then (main.rs 351-354, classes.rs 302-303)
DeleteFind(p, ctx, role) ==
    /\ procs[p].pc = "idle"
    /\ steps < MaxSteps
    /\ steps' = steps + 1
    /\ \/ /\ last' = Report([NoLast EXCEPT !.op = "delete", !.role = role,
                                           !.err = "DatabaseError"])
          /\ UNCHANGED procs
       \/ /\ find_by_role(classes, role) = {}
          /\ last' = [NoLast EXCEPT !.op = "delete", !.role = role,
                                    !.err = "InvalidClass"]
          /\ UNCHANGED procs
       \/ /\ find_by_role(classes, role) # {}
          /\ ~guild_of(ctx).some
          /\ last' = Report([NoLast EXCEPT !.op = "delete", !.role = role,
                                           !.err = "NoServer"])
          /\ UNCHANGED procs
       \/ /\ guild_of(ctx).some
          /\ \E c \in find_by_role(classes, role) :
                procs' = [procs EXCEPT ![p] =
                             [pc |-> "untrack", class |-> c,
                              seen |-> CachedGuild(guild_of(ctx).v),
                              db_deleted |-> FALSE, attempts |-> <<>>]]
          /\ UNCHANGED last
    /\ UNCHANGED <<roles, channels, memberRoles, servers, classes, nextId,
                   inflight, burst, manual>>

\* Class::delete: the call of untrack (classes.rs 305)
DeleteUntrack(p) ==
    /\ procs[p].pc = "untrack"
    /\ \E u \in untrack(classes, procs[p].class) :
          /\ classes' = u.classes
          /\ IF u.err # "ok"
             THEN /\ procs' = [procs EXCEPT ![p] = Idle]
                  /\ last' = Report([NoLast EXCEPT !.op = "delete",
                                        !.role = procs[p].class.role,
                                        !.err = u.err])
             ELSE /\ procs' = [procs EXCEPT ![p].pc = "objects",
                                            ![p].db_deleted = u.ret.some]
                  /\ UNCHANGED last
    /\ UNCHANGED <<roles, channels, memberRoles, servers, nextId, inflight,
                   burst, manual, steps>>

\* Class::delete: the next object of the loop over the channels and the
\* category, or the role after them (classes.rs 309-330); after the role
\* the command answers (classes.rs 332-337)
DeleteObject(p, accepted) ==
    /\ procs[p].pc = "objects"
    /\ LET self == procs[p].class
           order == DeleteOrder(self)
           x == order[Len(procs[p].attempts) + 1]
           how == DeleteRequest(procs[p].seen, x, accepted)
           attempts == Append(procs[p].attempts, [obj |-> x, how |-> how])
           bad == SelectSeq(attempts, LAMBDA a : a.how # "deleted")
       IN  /\ accepted \/ (x \in procs[p].seen /\ Live(x))
           /\ channels' = IF how = "deleted" /\ x \in DOMAIN channels
                          THEN RemoveChannel(channels, x) ELSE channels
           /\ roles' = IF how = "deleted" /\ x \in DOMAIN roles
                       THEN RemoveRole(roles, x) ELSE roles
           /\ memberRoles' = memberRoles \cap DOMAIN roles'
           /\ IF Len(attempts) < Len(order)
              THEN /\ procs' = [procs EXCEPT ![p].attempts = attempts]
                   /\ UNCHANGED last
              ELSE /\ procs' = [procs EXCEPT ![p] = Idle]
                   /\ last' = [NoLast EXCEPT
                         !.op = "delete", !.role = self.role, !.err = "ok",
                         !.ret = IF procs[p].db_deleted THEN Some(self.name)
                                 ELSE None,
                         !.class = self,
                         !.failed = [i \in DOMAIN bad |->
                                        DeleteError(bad[i], bad[i].obj = self.role)],
                         !.attempts = attempts]
    /\ UNCHANGED <<servers, classes, nextId, inflight, burst, manual, steps>>

\* the class the registry holds at first: role 1 tracked on category 11 with
\* channel 13 given
FirstClass ==
    [server_id |-> MemberGuild, name |-> InitRoles[1].name,
     short_name |-> short_name_of(InitRoles[1].name), role |-> 1,
     category |-> 11, text_channels |-> <<12>>, voice_channels |-> <<13>>]

InitDelete ==
    /\ channels = InitChannels
    /\ nextId = FirstFreshId
    /\ servers = SetToBag({NewServer(MemberGuild)})
    /\ classes = SetToBag({FirstClass})
    /\ last = NoLast
    /\ manual = 0
    /\ steps = 0
    /\ roles = InitRoles
    /\ memberRoles = {}
    /\ inflight = {}
    /\ burst = [base |-> {}, done |-> <<>>]
    /\ procs = [p \in Handlers |-> Idle]

NextDelete ==
    \/ \E ctx \in RaceCtxs :
       \E name \in {None} \cup {Some(n) : n \in RaceNames},
          role \in GuildRoles(ctx.guild_id.v),
          category \in GuildCategories(ctx.guild_id.v) :
          ClassTrack(ctx, name, role, category, <<>>)
    \/ \E p \in Handlers, role \in DOMAIN roles : UntrackFind(p, role)
    \/ \E p \in Handlers : UntrackCall(p)
    \/ \E p \in Handlers, ctx \in RaceCtxs :
       \E role \in GuildRoles(ctx.guild_id.v) : DeleteFind(p, ctx, role)
    \/ \E p \in Handlers : DeleteUntrack(p)
    \/ \E p \in Handlers, accepted \in BOOLEAN : DeleteObject(p, accepted)

SpecDelete == InitDelete /\ [][NextDelete]_vars

(***************************************************************************)
(* Rendering: the class list and the role menu (main.rs 179-200, 456-538)  *)
(***************************************************************************)
MaxShown == 53

MaxRenders == 1

\* .chunks(25)
ChunkSize == 25

DigitChars == <<"0", "1", "2", "3", "4", "5", "6", "7", "8", "9">>

\* u64::to_string, usize in format!("{}")
RECURSIVE Decimal(_)
Decimal(n) ==
    IF n < 10 THEN <<DigitChars[n + 1]>>
    ELSE Decimal(n \div 10) \o <<DigitChars[(n % 10) + 1]>>

\* char::is_numeric on the characters of the model's names
is_numeric(c) == \E d \in DOMAIN DigitChars : DigitChars[d] = c

DigitValue(c) == (CHOOSE d \in DOMAIN DigitChars : DigitChars[d] = c) - 1

\* the order of char::cmp: the code points of the characters
CodePoint(c) ==
    CASE c = " " -> 32
      [] is_numeric(c) -> 48 + DigitValue(c)
      [] c = "A" -> 65
      [] c = "B" -> 66
      [] c = "C" -> 67
      [] c = "a" -> 97
      [] c = "b" -> 98
      [] c = "c" -> 99

Ordering(a, b) == IF a < b THEN "Less" ELSE IF a > b THEN "Greater" ELSE "Equal"

\* str::cmp: the first differing character decides, a proper prefix is less
RECURSIVE str_cmp(_, _)
str_cmp(s1, s2) ==
    IF s1 = <<>> \/ s2 = <<>> THEN Ordering(Len(s1), Len(s2))
    ELSE IF Head(s1) # Head(s2)
         THEN Ordering(CodePoint(Head(s1)), CodePoint(Head(s2)))
         ELSE str_cmp(Tail(s1), Tail(s2))

\* human_sort: the value of the leading digits and what follows them (a u32;
\* the numbers in the names of the model have at most three digits)
RECURSIVE take_numeric(_, _)
take_numeric(s, sum) ==
    IF s # <<>> /\ is_numeric(Head(s))
    THEN take_numeric(Tail(s), sum * 10 + DigitValue(Head(s)))
    ELSE [sum |-> sum, rest |-> s]

\* human_sort::compare_chars_iters: two digits met at the same time compare
\* the two numbers they start, any other pair of characters compares by
\* code point; "Err" when one text ends before a difference is found
RECURSIVE compare_chars_iters(_, _)
compare_chars_iters(c1, c2) ==
    IF c1 = <<>> \/ c2 = <<>> THEN "Err"
    ELSE IF is_numeric(Head(c1)) /\ is_numeric(Head(c2))
         THEN LET n1 == take_numeric(c1, 0)
                  n2 == take_numeric(c2, 0)
              IN  IF n1.sum # n2.sum THEN Ordering(n1.sum, n2.sum)
                  ELSE compare_chars_iters(n1.rest, n2.rest)
         ELSE IF Head(c1) # Head(c2)
              THEN Ordering(CodePoint(Head(c1)), CodePoint(Head(c2)))
              ELSE compare_chars_iters(Tail(c1), Tail(c2))

comparePlain(s1, s2) == str_cmp(s1, s2)

\* human_sort::compare
compare(s1, s2) ==
    LET r == compare_chars_iters(s1, s2)
    IN  IF r = "Err" THEN str_cmp(s1, s2) ELSE r

\* a stable sort of the classes by name: c goes behind every class of the
\* sorted list that is not greater than it
RECURSIVE InsertSorted(_, _)
InsertSorted(v, c) ==
    IF v = <<>> THEN <<c>>
    ELSE IF compare(v[Len(v)].name, c.name) = "Greater"
         THEN Append(InsertSorted(SubSeq(v, 1, Len(v) - 1), c), v[Len(v)])
         ELSE Append(v, c)

RECURSIVE sorted_by(_)
sorted_by(v) ==
    IF v = <<>> THEN <<>>
    ELSE InsertSorted(sorted_by(SubSeq(v, 1, Len(v) - 1)), v[Len(v)])

MaxOrdered == 3

RECURSIVE ByRole(_)
ByRole(S) ==
    IF S = {} THEN <<>>
    ELSE LET m == CHOOSE d \in S : \A e \in S : d.role <= e.role
         IN  <<m>> \o ByRole(S \ {m})

Reverse(q) == [i \in DOMAIN q |-> q[Len(q) + 1 - i]]

\* the orders in which the store can return the documents S: every order of
\* up to MaxOrdered documents; of more, by role id upwards, downwards, and
\* upwards from the second document with the first one last
StoreOrders(S) ==
    IF Cardinality(S) <= MaxOrdered THEN Orders(S)
    ELSE LET up == ByRole(S)
         IN  {up, Reverse(up), Append(Tail(up), Head(up))}

\* every copy of every document of the order
RECURSIVE Copies(_, _)
Copies(q, coll) ==
    IF q = <<>> THEN <<>>
    ELSE [i \in 1..coll[Head(q)] |-> Head(q)] \o Copies(Tail(q), coll)

\* Class::list (classes.rs 116-131): the documents of the guild, in the order
\* of the store, or a failure of the store
list(coll, server_id) ==
    {[err |-> "DatabaseError", classes |-> <<>>]}
    \cup
    {[err |-> "ok", classes |-> Copies(q, coll)]
        : q \in StoreOrders(find(coll, {d \in BagToSet(coll) :
                                            d.server_id = server_id}))}

MenuOptionNeverDefault(c, member_roles) ==
    [label |-> c.name, value |-> Decimal(c.role), default |-> FALSE]

\* CreateSelectMenuOption::new(&c.name, c.role.to_string()) with
\* default_selection(member_roles.contains(&c.role))
MenuOption(c, member_roles) ==
    [label |-> c.name, value |-> Decimal(c.role),
     default |-> c.role \in member_roles]

chunksWhole(v) == IF v = <<>> THEN <<>> ELSE <<v>>

\* .chunks(25): consecutive groups of ChunkSize elements, the last one of
\* what is left
RECURSIVE chunks(_)
chunks(v) ==
    IF v = <<>> THEN <<>>
    ELSE IF Len(v) <= ChunkSize THEN <<v>>
         ELSE <<SubSeq(v, 1, ChunkSize)>>
              \o chunks(SubSeq(v, ChunkSize + 1, Len(v)))

\* the select menu of row i, rows counted from 0
SelectMenu(i, chunk) ==
    [custom_id |-> CustomId(TRUE, i), min_values |-> 0,
     max_values |-> Len(chunk), options |-> chunk]

\* the action rows build_class_menu makes of the listed classes
ActionRows(listed, member_roles) ==
    LET sorted == sorted_by(listed)
        options == [i \in DOMAIN sorted |-> MenuOption(sorted[i], member_roles)]
        groups == chunks(options)
    IN  [i \in DOMAIN groups |-> SelectMenu(i - 1, groups[i])]

\* build_class_menu (main.rs 506-538)
build_class_menu(coll, server_id, member_roles) ==
    {[err |-> l.err, listed |-> l.classes,
      rows |-> IF l.err = "ok" THEN ActionRows(l.classes, member_roles)
               ELSE <<>>]
        : l \in list(coll, server_id)}

\* the interactions the button handler is given: a click on the button the
\* menu command posted, and interactions that differ from it in one field
ButtonEvents ==
    LET click == [kind |-> "Button", button |-> TRUE,
                  member |-> Some(memberRoles), guild_id |-> Some(MemberGuild)]
    IN  {click,
         [click EXCEPT !.kind = "SelectMenu"],
         [click EXCEPT !.button = FALSE],
         [click EXCEPT !.member = None],
         [click EXCEPT !.guild_id = None]}

\* ClassMenuButtonHandler::interaction_create (main.rs 456-504); the platform
\* accepts the response or rejects it
ClassMenuButton(e, accepted) ==
    /\ steps < MaxRenders
    /\ steps' = steps + 1
    /\ IF e.kind # "Button" \/ ~e.button \/ ~e.member.some \/ ~e.guild_id.some
       THEN last' = [NoLast EXCEPT !.op = "menu_button", !.err = "ignored"]
       ELSE \E o \in build_class_menu(classes, e.guild_id.v, e.member.v) :
               last' = Report([NoLast EXCEPT
                           !.op = "menu_button",
                           !.err = IF o.err # "ok" THEN o.err
                                   ELSE IF accepted THEN "ok" ELSE "ApiError",
                           !.listed = o.listed,
                           !.ret = IF o.err = "ok" THEN Some(o.rows) ELSE None])
    /\ UNCHANGED <<roles, channels, memberRoles, servers, classes, nextId,
                   inflight, burst, manual, procs>>

\* "Found n classes: a, b, c" as the count and the items joined
FoundText(listed, mention) ==
    LET sorted == sorted_by(listed)
    IN  [count |-> Len(listed),
         items |-> [i \in DOMAIN sorted |->
                        IF mention THEN <<"@">> \o Decimal(sorted[i].role)
                        ELSE sorted[i].name]]

\* ClassCommand::list (main.rs 179-200)
list_command(coll, ctx, mention) ==
    IF ~guild_of(ctx).some
    THEN {[err |-> "NoServer", listed |-> <<>>, ret |-> None]}
    ELSE {[err |-> l.err, listed |-> l.classes,
           ret |-> IF l.err # "ok" THEN None
                   ELSE IF l.classes = <<>>
                        THEN Some([count |-> 0, items |-> <<>>])
                        ELSE Some(FoundText(l.classes, mention))]
            : l \in list(coll, guild_of(ctx).v)}

ClassList(ctx, mention) ==
    /\ steps < MaxRenders
    /\ steps' = steps + 1
    /\ \E o \in list_command(classes, ctx, mention) :
          last' = Report([NoLast EXCEPT !.op = "list", !.err = o.err,
                                        !.listed = o.listed, !.ret = o.ret])
    /\ UNCHANGED <<roles, channels, memberRoles, servers, classes, nextId,
                   inflight, burst, manual, procs>>

\* the name of the k-th class of the registry, "C k"
ClassName(k) == <<"C", " ">> \o Decimal(k)

\* the role created for the k-th class
ClassRole(k) == 100 + k

\* the k-th class of the member's guild, tracked on category 11
ShownClass(k) ==
    [server_id |-> MemberGuild, name |-> ClassName(k),
     short_name |-> short_name_of(ClassName(k)), role |-> ClassRole(k),
     category |-> 11, text_channels |-> <<12>>, voice_channels |-> <<>>]

\* a class of the other guild with the name of the first class
OtherGuildClass ==
    [server_id |-> "g2", name |-> ClassName(1),
     short_name |-> short_name_of(ClassName(1)), role |-> 4,
     category |-> 16, text_channels |-> <<>>, voice_channels |-> <<>>]

\* the classes of the member's guild: the first n, or the 1st, 2nd and 10th
ShownSets == {1..n : n \in 0..MaxShown} \cup {{1, 2, 10}}

\* a registry of up to MaxShown classes of the member's guild, with or
\* without a class of the other guild; the member holds some of the roles
InitRender ==
    /\ channels = InitChannels
    /\ nextId = FirstFreshId
    /\ last = NoLast
    /\ manual = 0
    /\ steps = 0
    /\ procs = << >>
    /\ inflight = {}
    /\ \E shown \in ShownSets, other \in BOOLEAN :
          /\ roles = [k \in {ClassRole(i) : i \in shown} |->
                          [guild |-> MemberGuild, name |-> ClassName(k - 100)]]
                     @@ MenuRoles
          /\ classes = SetToBag({ShownClass(k) : k \in shown}
                                \cup IF other THEN {OtherGuildClass} ELSE {})
          /\ servers = SetToBag({NewServer(MemberGuild) : k \in shown}
                                \cup IF other THEN {NewServer("g2")} ELSE {})
    /\ memberRoles \in SUBSET ({3, ClassRole(1), ClassRole(ChunkSize + 1)}
                               \cap DOMAIN roles)
    /\ burst = [base |-> memberRoles, done |-> <<>>]

NextRender ==
    \/ \E e \in ButtonEvents, accepted \in BOOLEAN : ClassMenuButton(e, accepted)
    \/ \E ctx \in GuildCtxs, mention \in BOOLEAN : ClassList(ctx, mention)

SpecRender == InitRender /\ [][NextRender]_vars

(***************************************************************************)
(* Properties of the registry commands                                     *)
(***************************************************************************)
\* a command returned in this step
Returned(op) == steps' = steps + 1 /\ last'.op = op

\* how many documents of a collection are among docs, copies counted
CountOf(coll, docs) == BagCardinality([d \in BagToSet(coll) \cap docs |-> coll[d]])

\* C4: after any sequence of create, track, untrack and delete commands run
\* one after the other, no two Class records of one guild have names that
\* are equal ignoring letter case.
C4_NameUniqueIgnoringCase ==
    \A c \in BagToSet(classes) :
        CountOf(classes, {d \in BagToSet(classes) :
                             /\ d.server_id = c.server_id
                             /\ to_lowercase(d.name) = to_lowercase(c.name)}) = 1

RoleUnique ==
    \A c \in BagToSet(classes) : CountOf(classes, {d \in BagToSet(classes) : d.role = c.role}) = 1

\* C5 as stated: no two Class records have the same role, and a track whose
\* role is bound to a class C fails with RoleInUse carrying the name of C.
C5_BoundRoleAlwaysRoleInUse ==
    /\ []RoleUnique
    /\ [][(Returned("track") /\ find_by_role(classes, last'.role) # {})
          => /\ last'.err = "RoleInUse"
             /\ \E c \in find_by_role(classes, last'.role) : last'.in_use = c.name]_vars

\* C5: no two Class records have the same role; a track whose role is bound
\* to a class C leaves the records as they are and fails, with ClassExists
\* when the name it would record is recorded for the guild already, and with
\* RoleInUse carrying the name of C otherwise.
C5_RoleUnique ==
    /\ []RoleUnique
    /\ [][(Returned("track") /\ find_by_role(classes, last'.role) # {})
          => /\ classes' = classes
             /\ IF class_exists(classes, roles[last'.role].guild, last'.name)
                THEN last'.err = "ClassExists"
                ELSE /\ last'.err = "RoleInUse"
                     /\ \E c \in find_by_role(classes, last'.role) :
                           last'.in_use = c.name]_vars

C5_Witness ==
    /\ last.op = "track"
    /\ last.err = "RoleInUse"
    /\ \E c \in find_by_role(classes, last.role) :
          /\ last.in_use = c.name
          /\ c.name # last.name

\* C6: get_or_create is idempotent when calls do not race: the first of two
\* successive calls for a guild creates a record with empty admin_roles and
\* no refrole if the guild has none, the second returns a record with the
\* same fields and leaves the store as the first left it, and the store
\* never holds more than one Server record of a guild.
C6_GetOrCreateIdempotent ==
    \A g \in Guilds :
        /\ CountOf(servers, {d \in BagToSet(servers) : d.server_id = g}) <= 1
        /\ \A a \in get_or_create(servers, g) :
              a.err = "ok" =>
                /\ IF ServersOf(servers, g) = {}
                   THEN /\ a.server = [server_id |-> g, admin_roles |-> <<>>,
                                       refrole |-> None]
                        /\ a.servers = servers (+) SetToBag({a.server})
                   ELSE /\ a.server \in ServersOf(servers, g)
                        /\ a.servers = servers
                /\ \A b \in get_or_create(a.servers, g) :
                      b.err = "ok" => b.server = a.server /\ b.servers = a.servers

C6_Witness ==
    /\ last.op = "track"
    /\ last.err = "ok"
    /\ \E s \in ServersOf(servers, "g1") : s.refrole.some
    /\ ServersOf(servers, "g2") = {}

\* whether an object of a class is live on the platform
\* C7: delete attempts every text channel, every voice channel, the category
\* and the role of the class exactly once, whatever is missing or rejected;
\* each missing object and each rejected deletion adds exactly one entry to
\* the error list, the other objects are deleted, the Class record is
\* removed and the first component of the result is Some(name).
C7_DeleteBestEffort ==
    [][(Returned("delete") /\ last'.err = "ok")
       => LET c == last'.class
              objs == c.text_channels \o c.voice_channels \o <<c.category, c.role>>
              att == last'.attempts
              bad == SelectSeq(att, LAMBDA a : a.how # "deleted")
          IN  /\ [i \in DOMAIN att |-> att[i].obj] = objs
              /\ \A i \in DOMAIN att :
                    /\ att[i].how = "missing" <=> ~Live(objs[i])
                    /\ att[i].how = "deleted" =>
                          objs[i] \notin DOMAIN channels' \cup DOMAIN roles'
                    /\ att[i].how = "rejected" =>
                          objs[i] \in DOMAIN channels' \cup DOMAIN roles'
              /\ [i \in DOMAIN last'.failed |-> last'.failed[i].obj]
                    = [i \in DOMAIN bad |-> bad[i].obj]
              /\ c \in BagToSet(classes)
              /\ \A d \in BagToSet(classes) \cup BagToSet(classes') :
                    CopiesIn(d, classes') =
                        IF d.role = c.role THEN 0 ELSE CopiesIn(d, classes)
              /\ last'.ret = Some(c.name)]_vars

C7_Witness ==
    /\ last.op = "delete"
    /\ last.err = "ok"
    /\ last.failed = <<[kind |-> "InvalidChannel", obj |-> last.class.category]>>
    /\ last.class.text_channels # <<>>
    /\ last.class.voice_channels # <<>>
    /\ last.ret = Some(last.class.name)

\* C8: a successful track adds one Class record whose text_channels are the
\* text channels and whose voice_channels are the voice channels among the
\* channels given and the live children of the category, each listed once,
\* the category in neither list.
C8_TrackChannelLists ==
    [][(Returned("track") /\ last'.err = "ok")
       => LET c == last'.class
              text == Range(c.text_channels)
              voice == Range(c.voice_channels)
          IN  /\ classes' = classes (+) SetToBag({c})
              /\ c.role = last'.role /\ c.name = last'.name
              /\ text = {x \in last'.combined : channels[x].kind = "Text"}
              /\ voice = {x \in last'.combined : channels[x].kind = "Voice"}
              /\ Len(c.text_channels) = Cardinality(text)
              /\ Len(c.voice_channels) = Cardinality(voice)
              /\ c.category \notin text \cup voice]_vars

C8_Witness ==
    /\ last.op = "track"
    /\ last.err = "ok"
    /\ last.class.category = 11
    /\ last.combined = {12, 13}
    /\ last.class.text_channels = <<12>>
    /\ last.class.voice_channels = <<13>>

\* the channels of a track that are neither text nor voice channels
OtherTypes(cs) == {x \in cs : channels[x].kind \notin {"Text", "Voice"}}

\* C9 as stated: a track whose channels hold one of another type fails with
\* InvalidChannelType naming it, and a track that fails with ClassExists,
\* RoleInUse or InvalidChannelType leaves the Class records as they were.
C9_OtherTypeAlwaysInvalidChannelType ==
    [][Returned("track")
       => /\ OtherTypes(last'.combined) # {} =>
                /\ last'.err = "InvalidChannelType"
                /\ last'.bad_channel \in OtherTypes(last'.combined)
          /\ last'.err \in {"ClassExists", "RoleInUse", "InvalidChannelType"} =>
                classes' = classes]_vars

\* C9: a track that passes the name check and the role check and whose
\* channels hold one of a type other than text and voice fails with
\* InvalidChannelType naming such a channel, unless the store fails; and a
\* track that fails leaves the Class records as they were.
C9_FailedTrackPersistsNothing ==
    [][Returned("track")
       => LET other == OtherTypes(last'.combined)
              passes == /\ ~class_exists(classes, roles[last'.role].guild, last'.name)
                        /\ find_by_role(classes, last'.role) = {}
          IN  /\ (other # {} /\ passes) =>
                    /\ last'.err = "InvalidChannelType"
                    /\ last'.bad_channel \in other
              /\ last'.err = "InvalidChannelType" => (other # {} /\ passes)
              /\ last'.err # "ok" => classes' = classes]_vars

C9_Witness ==
    /\ last.op = "track"
    /\ last.err = "InvalidChannelType"
    /\ last.bad_channel \in OtherTypes(last.combined)
    /\ classes # EmptyBag

\* C10: untrack(class) removes the Class records whose role is the role of
\* class and no other record; it returns Some(name of class) when it removed
\* a record and None when it removed none, as the second of two untrack
\* calls on one class does.
C10_UntrackByRole ==
    [][\A p \in Handlers :
          (procs[p].pc = "found" /\ procs'[p].pc = "idle")
          => LET self == procs[p].class
                 removed == CountOf(classes, {d \in BagToSet(classes) :
                                                d.role = self.role})
             IN  IF last'.err = "DatabaseError"
                 THEN classes' = classes
                 ELSE /\ \A d \in BagToSet(classes) \cup BagToSet(classes') :
                            CopiesIn(d, classes') =
                                IF d.role = self.role THEN 0
                                ELSE CopiesIn(d, classes)
                      /\ last'.ret = IF removed > 0 THEN Some(self.name)
                                     ELSE None]_vars

C10_Witness ==
    /\ last.op = "untrack"
    /\ last.class # NoClass
    /\ last.ret = None
    /\ last.err = "InvalidClass"
    /\ \A p \in Handlers : procs[p].pc = "idle"

\* the failures of create that are found before anything is made
ValidationErrors ==
    {"NoServer", "NoRefrole", "ClassExists", "RoleExists", "CategoryExists",
     "InvalidRefrole"}

\* C11: a create that fails with NoServer, NoRefrole, ClassExists,
\* RoleExists, CategoryExists or InvalidRefrole has sent no request to the
\* platform: the roles and channels are those before the call, and so are
\* the Class records.
C11_ValidationFailureMakesNothing ==
    [][(Returned("create") /\ last'.err \in ValidationErrors)
       => /\ last'.attempts = <<>>
          /\ roles' = roles
          /\ channels' = channels
          /\ classes' = classes]_vars

C11_Witness ==
    /\ last.op = "create"
    /\ last.err = "RoleExists"
    /\ \E s \in BagToSet(servers) : s.refrole.some
    /\ nextId = FirstFreshId

\* C12: a successful create makes, in this order, a role, a category, three
\* text channels and a voice channel under that category, none of them live
\* before the call, and adds exactly one Class record whose role, category,
\* text_channels and voice_channels are the identifiers of these objects.
C12_CreateMakesClass ==
    [][(Returned("create") /\ last'.err = "ok")
       => LET c == last'.class
              made == [i \in DOMAIN last'.attempts |-> last'.attempts[i].obj]
          IN  /\ \A i \in DOMAIN last'.attempts : last'.attempts[i].how = "created"
              /\ made = <<c.role, c.category>> \o c.text_channels \o c.voice_channels
              /\ Len(c.text_channels) = 3 /\ Len(c.voice_channels) = 1
              /\ Cardinality(Range(made)) = 6
              /\ \A x \in Range(made) : ~Live(x)
              /\ DOMAIN roles' = DOMAIN roles \cup {c.role}
              /\ DOMAIN channels' = DOMAIN channels \cup (Range(made) \ {c.role})
              /\ \A x \in DOMAIN roles : roles'[x] = roles[x]
              /\ \A x \in DOMAIN channels : channels'[x] = channels[x]
              /\ roles'[c.role].name = c.name
              /\ channels'[c.category].kind = "Category"
              /\ channels'[c.category].name = c.name
              /\ \A x \in Range(c.text_channels) :
                    /\ channels'[x].kind = "Text"
                    /\ channels'[x].parent = Some(c.category)
              /\ \A x \in Range(c.voice_channels) :
                    /\ channels'[x].kind = "Voice"
                    /\ channels'[x].parent = Some(c.category)
              /\ classes' = classes (+) SetToBag({c})]_vars

C12_Witness ==
    /\ last.op = "create"
    /\ last.err = "ok"
    /\ BagToSet(classes) = {last.class}
    /\ last.class.role \in DOMAIN roles
    /\ Range(last.class.text_channels) \subseteq DOMAIN channels

\* the objects the platform made for the last create
MadeBy(attempts) ==
    {attempts[i].obj : i \in {j \in DOMAIN attempts : attempts[j].how = "created"}}

\* C19 as stated: in create the four channel requests are all sent before
\* the result of any of them is awaited, so that once the category is made
\* the platform receives the four of them, whichever of them it rejects.
C19_ChannelRequestsAllSent ==
    [][(/\ Returned("create")
        /\ Len(last'.attempts) >= 2
        /\ last'.attempts[2].how = "created")
       => Len(last'.attempts) = 6]_vars

\* C20: a create that fails after it made the role leaves every object it
\* made live on the platform, removes no object, and adds no Class record.
C20_NoRollback ==
    [][(/\ Returned("create")
        /\ last'.err # "ok"
        /\ last'.attempts # <<>>
        /\ last'.attempts[1].how = "created")
       => /\ MadeBy(last'.attempts) \subseteq DOMAIN roles' \cup DOMAIN channels'
          /\ MadeBy(last'.attempts) \cap (DOMAIN roles \cup DOMAIN channels) = {}
          /\ \A x \in DOMAIN roles : x \in DOMAIN roles' /\ roles'[x] = roles[x]
          /\ \A x \in DOMAIN channels :
                x \in DOMAIN channels' /\ channels'[x] = channels[x]
          /\ classes' = classes]_vars

C20_Witness ==
    /\ last.op = "create"
    /\ last.err = "DatabaseError"
    /\ Cardinality(MadeBy(last.attempts)) = 6
    /\ MadeBy(last.attempts) \subseteq DOMAIN roles \cup DOMAIN channels
    /\ classes = EmptyBag

\* C13: set_refrole on the Server record of a guild fails with InvalidRole
\* and leaves every Server record as it is when the candidate is not a live
\* role of the guild; otherwise, unless the store fails, the record of the
\* guild is replaced by one with refrole = candidate and the same server_id
\* and admin_roles, and the records of other guilds stay as they are.
C13_SetRefrole ==
    \A g \in Guilds : \A self \in ServersOf(servers, g) :
    \A role \in DOMAIN InitRoles \cup DOMAIN roles :
    \A o \in set_refrole(servers, self, Some(g), role) :
        IF role \notin GuildRoles(g)
        THEN o.err = "InvalidRole" /\ o.servers = servers
        ELSE /\ o.err \in {"ok", "DatabaseError"}
             /\ o.err = "DatabaseError" => o.servers = servers
             /\ o.err = "ok" =>
                   /\ ServersOf(o.servers, g) =
                         {[server_id |-> g, admin_roles |-> self.admin_roles,
                           refrole |-> Some(role)]}
                   /\ BagCardinality(o.servers) = BagCardinality(servers)
                   /\ \A d \in BagToSet(servers) \cup BagToSet(o.servers) :
                         d.server_id # g =>
                            CopiesIn(d, o.servers) = CopiesIn(d, servers)

C13_Witness ==
    /\ last.op = "set"
    /\ last.err = "ok"
    /\ last.role # 0
    /\ \E s \in ServersOf(servers, roles[last.role].guild) :
          s.refrole = Some(last.role)
    /\ \E s \in BagToSet(servers) : s.server_id # roles[last.role].guild
    /\ DOMAIN roles # DOMAIN InitRoles

(***************************************************************************)
(* Properties of the rendering                                             *)
(***************************************************************************)
\* the menu of the last click on the button, when one was built
Built == last.op = "menu_button" /\ last.ret.some

\* C14: for n listed classes the menu has ceil(n / 25) select menus, none
\* with more than 25 options or with none, all but the last with exactly 25,
\* the options in the sorted order of the classes across the select menus,
\* each select menu allowing 0 to its own number of options to be selected
C14_Pagination ==
    Built =>
        LET rows == last.ret.v
            n == Len(last.listed)
            sorted == sorted_by(last.listed)
        IN  /\ Len(rows) * ChunkSize >= n
            /\ (Len(rows) - 1) * ChunkSize < n \/ (n = 0 /\ rows = <<>>)
            /\ \A i \in DOMAIN rows :
                  /\ Len(rows[i].options) \in 1..ChunkSize
                  /\ i < Len(rows) => Len(rows[i].options) = ChunkSize
                  /\ rows[i].min_values = 0
                  /\ rows[i].max_values = Len(rows[i].options)
                  /\ \A j \in DOMAIN rows[i].options :
                        /\ (i - 1) * ChunkSize + j \in DOMAIN sorted
                        /\ rows[i].options[j].label
                             = sorted[(i - 1) * ChunkSize + j].name
            /\ n = 0 \/ (Len(rows) - 1) * ChunkSize
                            + Len(rows[Len(rows)].options) = n

\* 53 classes are shown as select menus of 25, 25 and 3 options
C14_Witness ==
    /\ Built
    /\ Len(last.listed) = 53
    /\ [i \in DOMAIN last.ret.v |-> Len(last.ret.v[i].options)] = <<25, 25, 3>>
    /\ [i \in DOMAIN last.ret.v |-> last.ret.v[i].max_values] = <<25, 25, 3>>

\* the options of all select menus of a menu, in the order of the rows
RECURSIVE AllOptions(_)
AllOptions(rows) ==
    IF rows = <<>> THEN <<>> ELSE Head(rows).options \o AllOptions(Tail(rows))

\* the role id an option value is read back as
RoleOfValue(value) == take_numeric(value, 0)

\* C15: the options of a menu are exactly the classes of the guild of the
\* click, none of another guild; the value of an option is the role id of its
\* class, and the option is selected by default exactly if the member of the
\* click holds that role
C15_OptionsAreGuildClasses ==
    Built =>
        LET options == AllOptions(last.ret.v)
            mine == {c \in BagToSet(classes) : c.server_id = MemberGuild}
            ClassOf(o) == {c \in mine : /\ o.label = c.name
                                        /\ RoleOfValue(o.value).rest = <<>>
                                        /\ RoleOfValue(o.value).sum = c.role}
        IN  /\ Len(options) = BagCardinality(delete_many(classes,
                                    BagToSet(classes) \ mine))
            /\ \A c \in mine :
                  Cardinality({i \in DOMAIN options : c \in ClassOf(options[i])})
                      = CopiesIn(c, classes)
            /\ \A i \in DOMAIN options :
                  /\ ClassOf(options[i]) # {}
                  /\ \A c \in ClassOf(options[i]) :
                        options[i].default <=> c.role \in memberRoles

\* a menu of a guild with classes the member holds and classes the member
\* does not hold, a role of the member that is no class, and a class of the
\* same name in another guild
C15_Witness ==
    /\ Built
    /\ OtherGuildClass \in BagToSet(classes)
    /\ 3 \in memberRoles
    /\ \E i, j \in DOMAIN AllOptions(last.ret.v) :
          /\ AllOptions(last.ret.v)[i].default
          /\ ~AllOptions(last.ret.v)[j].default

\* the number a text ends with: "C 10" and "@110" end with 10 and 110
RECURSIVE NumberIn(_)
NumberIn(text) ==
    IF text = <<>> \/ is_numeric(Head(text)) THEN take_numeric(text, 0).sum
    ELSE NumberIn(Tail(text))

Ascending(texts) ==
    \A i, j \in DOMAIN texts : i < j => NumberIn(texts[i]) < NumberIn(texts[j])

\* the names of the classes as the store listed them
ListedNames == [i \in DOMAIN last.listed |-> last.listed[i].name]

\* C16: in the menu and in the class list the classes are in the order of
\* their names with the numbers in the names compared by value, whatever
\* the order the store listed them in: "C 1", "C 2", "C 10"
C16_NaturalSort ==
    /\ Built =>
          LET options == AllOptions(last.ret.v)
          IN  Ascending([i \in DOMAIN options |-> options[i].label])
    /\ (last.op = "list" /\ last.ret.some) => Ascending(last.ret.v.items)

\* the store lists "C 2", "C 10", "C 1"; menu and list show "C 1", "C 2", "C 10"
C16_Witness ==
    /\ ListedNames = <<ClassName(2), ClassName(10), ClassName(1)>>
    /\ last.ret.some
    /\ \/ Built /\ [i \in 1..3 |-> AllOptions(last.ret.v)[i].label]
                      = <<ClassName(1), ClassName(2), ClassName(10)>>
       \/ last.op = "list" /\ last.ret.v.items
                      = <<ClassName(1), ClassName(2), ClassName(10)>>

(***************************************************************************)
(* Properties of concurrent track and create commands                      *)
(***************************************************************************)
\* the Class records with the guild and name of c, and with the role of c
SameName(c) ==
    {d \in BagToSet(classes) : d.server_id = c.server_id /\ d.name = c.name}

SameRole(c) == {d \in BagToSet(classes) : d.role = c.role}

\* C17: a track or create command that passed its ClassExists and RoleInUse
\* checks inserts its record whatever the store holds by then, so that two
\* commands which both passed the checks both insert, and two Class records
\* of one guild and name, or of one role, are reachable
C17_CheckThenAct ==
    [][\A p \in Handlers :
          (procs[p].pc = "insert" /\ procs'[p].pc = "idle" /\ last'.err = "ok")
          => classes' = classes (+) SetToBag({procs[p].class})]_vars

\* two records of one guild and name and of one role
C17_Witness ==
    \E c \in BagToSet(classes) :
        /\ CountOf(classes, SameName(c)) >= 2
        /\ CountOf(classes, SameRole(c)) >= 2

\* how many Server records the collection holds for guild g
ServerCount(coll, g) == CountOf(coll, {d \in BagToSet(coll) : d.server_id = g})

\* C18: a get_or_create whose lookup found no record of the guild inserts a
\* new record whatever the store holds by then, so that two calls which both
\* missed the lookup both insert and a guild has two Server records; no step
\* lowers the number of Server records of a guild
C18_FirstAccessRace ==
    [][/\ \A p \in Handlers :
             (procs[p].pc = "insert_server" /\ procs'[p].pc = "checks")
             => servers' = servers (+) SetToBag({NewServer(procs[p].cmd.ctx.guild_id.v)})
       /\ \A g \in Guilds : ServerCount(servers', g) >= ServerCount(servers, g)]_vars

\* two Server records of one guild, after both handlers have gone on
C18_Witness ==
    /\ \E g \in Guilds : ServerCount(servers, g) >= 2
    /\ \A p \in Handlers : procs[p].pc \notin {"idle", "insert_server"}

(***************************************************************************)
(* Properties of concurrent delete, untrack and track commands             *)
(***************************************************************************)
\* the objects of the attempts made
Attempted(attempts) == {attempts[i].obj : i \in DOMAIN attempts}

\* C21: delete removes the Class records of the role from the store before
\* it asks the platform for anything; it goes through every text and voice
\* channel before the category and through the role last; when the call of
\* untrack fails it answers without having asked the platform for anything
C21_DeleteOrder ==
    [][/\ (channels' # channels \/ roles' # roles)
             => \E p \in Handlers : procs[p].pc = "objects"
       /\ \A p \in Handlers :
             LET a == procs[p]
                 b == procs'[p]
             IN  /\ (a.pc = "untrack" /\ b.pc = "objects")
                      => /\ find_by_role(classes', a.class.role) = {}
                         /\ a.attempts = <<>>
                         /\ channels' = channels /\ roles' = roles
                 /\ (a.pc = "untrack" /\ b.pc = "idle")
                      => /\ last'.err = "DatabaseError"
                         /\ last'.attempts = <<>>
                         /\ classes' = classes
                         /\ channels' = channels /\ roles' = roles
                 /\ (a.pc = "objects" /\ b # a)
                      => LET att == IF b.pc = "idle" THEN last'.attempts
                                    ELSE b.attempts
                             x == att[Len(att)].obj
                             chans == Range(a.class.text_channels)
                                      \cup Range(a.class.voice_channels)
                         IN  /\ Len(att) = Len(a.attempts) + 1
                             /\ x \in chans
                                  => Attempted(a.attempts) \subseteq chans
                             /\ x = a.class.category
                                  => Attempted(a.attempts) = chans
                             /\ x = a.class.role
                                  => /\ Attempted(a.attempts)
                                          = chans \cup {a.class.category}
                                     /\ b.pc = "idle"
                             /\ b.pc = "idle" => x = a.class.role]_vars

\* a delete that removed the record, then the channels, the category and
\* the role
C21_Witness ==
    /\ last.op = "delete"
    /\ last.err = "ok"
    /\ last.ret = Some(last.class.name)
    /\ [i \in DOMAIN last.attempts |-> last.attempts[i].obj] = <<12, 13, 11, 1>>
    /\ \A i \in DOMAIN last.attempts : last.attempts[i].how = "deleted"
    /\ classes = EmptyBag

(***************************************************************************)
(* Frame of the commands                                                   *)
(***************************************************************************)
\* C22: a track or untrack command, whether it succeeds or fails, leaves the
\* roles, categories and channels of the platform as they were
C22_TrackUntrackFrame ==
    [][(Returned("track") \/ Returned("untrack"))
       => roles' = roles /\ channels' = channels]_vars

\* an untrack that removed a record whose role, category and channels are
\* all still on the platform
C22_Witness ==
    /\ last.op = "untrack"
    /\ last.err = "ok"
    /\ last.ret.some
    /\ find_by_role(classes, last.role) = {}
    /\ roles = InitRoles
    /\ channels = InitChannels

(***************************************************************************)
(* Further properties of the role menu                                     *)
(***************************************************************************)
\* C23: a Submit causes at most one edit call: the handler returns with the
\* answer to its edit, accepted or rejected; a rejected edit leaves the
\* member's role set as it was; an event without a member causes no edit;
\* the member's role set changes only by an accepted edit
C23_NoRetry ==
    [][/\ burst'.done # burst.done
             => LET d == burst'.done[Len(burst'.done)]
                IN  /\ burst'.done = Append(burst.done, d)
                    /\ d.event \in inflight
                    /\ d.event \notin inflight'
                    /\ d.event.member.some
                    /\ ~d.accepted => memberRoles' = memberRoles
       /\ \A e \in inflight' \ inflight : e.member.some
       /\ memberRoles' # memberRoles
             => /\ burst'.done # burst.done
                /\ burst'.done[Len(burst'.done)].accepted]_vars

\* a rejected edit that would have changed the member's roles: no handler
\* is left and the member has the roles of before
C23_Witness ==
    /\ Len(burst.done) = 1
    /\ ~burst.done[1].accepted
    /\ burst.done[1].applied # burst.base
    /\ inflight = {}
    /\ memberRoles = burst.base

(***************************************************************************)
(* The Server records                                                      *)
(***************************************************************************)
HadNone(d) == ServersOf(servers, d.server_id) = {}

\* the lookup of the handler that inserts d found no record of the guild
SawNone(d) ==
    \/ HadNone(d)
    \/ \E p \in Handlers : /\ procs[p].pc = "insert_server"
                            /\ procs[p].server = d
                            /\ procs'[p].pc = "checks"

\* what every step does to the Server records: none is lost; a record leaves
\* the store only when a successful config refrole set on its guild replaces
\* it by the same record with the role as refrole; a record that enters the
\* store is the record such a set wrote, or a default record of a guild
\* that has none (strict) or for which the inserting handler found none
ServerSteps(strict) ==
    LET set_ok == Returned("set") /\ last'.err = "ok"
    IN  /\ \A g \in Guilds :
              ServerCount(servers', g) >= ServerCount(servers, g)
        /\ \A d \in BagToSet(servers) :
              CopiesIn(d, servers') < CopiesIn(d, servers)
              => /\ set_ok
                 /\ roles[last'.role].guild = d.server_id
                 /\ [d EXCEPT !.refrole = Some(last'.role)] \in BagToSet(servers')
                 /\ ServerCount(servers', d.server_id)
                       = ServerCount(servers, d.server_id)
        /\ \A d \in BagToSet(servers') :
              CopiesIn(d, servers') > CopiesIn(d, servers)
              => \/ /\ d = NewServer(d.server_id)
                    /\ IF strict THEN HadNone(d) ELSE SawNone(d)
                 \/ /\ set_ok
                    /\ roles[last'.role].guild = d.server_id
                    /\ d.refrole = Some(last'.role)

\* C24: no command removes a Server record, and the fields of a record
\* change only through a successful config refrole set on its guild; create
\* and track leave every record that exists unchanged and may only insert
\* the default record of a guild for which their own lookup found none,
\* which by the time of the insert may have a record
C24_ServerLifecycle == [][ServerSteps(FALSE)]_vars

\* C24 as stated: the default record is inserted only for a guild that has
\* no record
C24_InsertOnlyForGuildWithNone == [][ServerSteps(TRUE)]_vars

\* a default record inserted next to a record of the same guild whose
\* refrole is set, which is left as it was
C24_Witness ==
    \E g \in Guilds :
        /\ ServerCount(servers, g) = 2
        /\ NewServer(g) \in BagToSet(servers)
        /\ \E s \in ServersOf(servers, g) : s.refrole.some

(***************************************************************************)
(* Untrack and delete against concurrent commands on the same role         *)
(***************************************************************************)
\* the call of Class::untrack that handler p makes in this step returns Some
UntrackReturnsSome(p) ==
    \/ /\ procs[p].pc = "found"
       /\ procs'[p].pc = "idle"
       /\ last'.ret.some
    \/ /\ procs[p].pc = "untrack"
       /\ procs'[p].pc = "objects"
       /\ procs'[p].db_deleted

\* C25: whenever untrack, called by the untrack command or inside delete,
\* returns Some(n), a Class record with name n is among the records this
\* call removed from the store
C25_UntrackReturnsRemovedName ==
    [][\A p \in Handlers :
          UntrackReturnsSome(p)
          => \E d \in BagToSet(classes) :
                /\ d.name = procs[p].class.name
                /\ CopiesIn(d, classes') < CopiesIn(d, classes)]_vars

\* the platform objects a Class record references
Referenced(d) ==
    {d.role, d.category} \cup {d.text_channels[i] : i \in DOMAIN d.text_channels}
    \cup {d.voice_channels[i] : i \in DOMAIN d.voice_channels}

\* the objects the attempts destroyed
Destroyed(attempts) ==
    {attempts[i].obj : i \in {j \in DOMAIN attempts : attempts[j].how = "deleted"}}

\* C26: when a delete completes, no Class record in the store references a
\* role, category or channel that this delete destroyed
C26_NoDanglingAfterDelete ==
    [][\A p \in Handlers :
          (procs[p].pc = "objects" /\ procs'[p].pc = "idle")
          => \A d \in BagToSet(classes') :
                Referenced(d) \cap Destroyed(last'.attempts) = {}]_vars

(***************************************************************************)
(* The controls of one rendered menu                                       *)
(***************************************************************************)
\* C27: an accepted Submit of one control of a rendered menu leaves the
\* member's membership of every class shown in another control of that menu
\* as it was before the edit
C27_OtherControlsUnchanged ==
    \A i \in 1..Len(burst.done) :
        LET d == burst.done[i]
            m == d.event.message
        IN  d.accepted =>
                \A j \in DOMAIN m \ {d.event.src} :
                    \A r \in m[j].options \ ShownRoles(d.event) :
                        (r \in d.applied) <=> (r \in RolesBefore(i))

====
